---- MODULE Spec2Model ----
(***************************************************************************)
(* Model of the compiler toolkit's grammar and automaton algorithms        *)
(* (src/unnamed/part_001): FIRST/FOLLOW, the LL(1) predictive table, left  *)
(* recursion elimination, left factoring, subset construction, DFA         *)
(* completion and minimisation.                                            *)
(*                                                                         *)
(* Data representation.                                                    *)
(*  - a symbol is a string; EPS is the epsilon marker, END the end-marker. *)
(*  - a JavaScript object used as an insertion-ordered map (a grammar, a   *)
(*    row of the predictive table) is a record [keys, val]: keys is the    *)
(*    sequence Object.keys() returns, val the function from key to value.  *)
(*    The symbols of the bounded inputs are never integer-like strings, so *)
(*    Object.keys() order is insertion order.                              *)
(*  - a JavaScript Set is a duplicate-free sequence in insertion order.    *)
(*  - r.join(' ') === s.join(' ') on alternatives is sequence equality:    *)
(*    no symbol of the bounded inputs contains a space.                    *)
(***************************************************************************)
EXTENDS Integers, Sequences, FiniteSets, TLC

VARIABLES
  pc,      \* which tool has run on the input: the handler position
  text,    \* the text typed into the tool's input box
  parsed,  \* result of parseGrammar(text), symbols as character sequences
  str,     \* result of stringifyGrammar(parsed)
  str2,    \* result of stringifyGrammar(parseGrammar(str))
  report,  \* result of validateGrammar(g)
  ll1lr,   \* result of buildPredictiveTable on eliminateLeftRecursion(g)
  mem,     \* the arrays and objects of a transformer call, by address
  g,       \* the input grammar (result of parseGrammar), an ordered map
  FIRST,   \* result of computeFirst(g)
  FOLLOW,  \* result of computeFollow(g, FIRST, start)
  ll1,     \* result of buildPredictiveTable(g, FIRST, FOLLOW)
  lr,      \* loop state of eliminateLeftRecursion: [prods, nonterms, i]
  lf,      \* result of leftFactor(g)
  nfa,     \* the input automaton (result of parseNFACombined)
  dfa,     \* result of nfaToDfaCombined(nfa)
  cdfa,    \* result of completeDFACombined(dfa)
  mdfa,    \* result of minimizeDFACombined(cdfa)
  mdfa2    \* result of minimizeDFACombined(mdfa)

vars == <<pc, text, parsed, str, str2, report, ll1lr, mem, g, FIRST, FOLLOW, ll1, lr, lf, nfa,
          dfa, cdfa, mdfa, mdfa2>>

\* the variables of the text tools, left alone by the other tools
textVars == <<text, parsed, str, str2, report, ll1lr, mem>>

EPS == "ε"
END == "$"
None == [none |-> TRUE]

\* the text tools have not run
TextIdle ==
  /\ text = None /\ parsed = None /\ str = None /\ str2 = None
  /\ report = None /\ ll1lr = None /\ mem = None

(***************************************************************************)
(* Helpers for the JavaScript containers.                                  *)
(***************************************************************************)
Range(s) == {s[k] : k \in 1..Len(s)}

\* Set.prototype.add on an insertion-ordered set
SetAdd(s, x) == IF x \in Range(s) THEN s ELSE Append(s, x)

\* the empty object {}
EmptyMap == [keys |-> <<>>, val |-> <<>>]

\* obj[k] = v
MapPut(m, k, v) ==
  IF k \in Range(m.keys)
  THEN [keys |-> m.keys, val |-> [m.val EXCEPT ![k] = v]]
  ELSE [keys |-> Append(m.keys, k),
        val  |-> [x \in Range(m.keys) \cup {k} |-> IF x = k THEN v ELSE m.val[x]]]

\* truthiness of obj[k] for array- or object-valued maps
MapHas(m, k) == k \in Range(m.keys)

\* new Set(Object.keys(prods))
NontermSet(prods) == Range(prods.keys)

(***************************************************************************)
(* FIRST and FOLLOW                                                        *)
(***************************************************************************)
RECURSIVE AddNonEps(_, _, _)
\* for (const t of fset) if (t !== 'ε' && t !== 'epsilon') res.add(t)
AddNonEps(res, fset, k) ==
  IF k > Len(fset) THEN res
  ELSE AddNonEps(IF fset[k] # EPS /\ fset[k] # "epsilon" THEN SetAdd(res, fset[k]) ELSE res,
                 fset, k + 1)

RECURSIVE fosLoop(_, _, _, _, _)
fosLoop(tokens, k, res, F, nts) ==
  IF k > Len(tokens) THEN SetAdd(res, EPS)            \* allNullable stayed true
  ELSE LET sym == tokens[k] IN
    IF sym = EPS \/ sym = "epsilon" THEN fosLoop(tokens, k + 1, res, F, nts)
    ELSE IF sym \notin nts THEN SetAdd(res, sym)      \* terminal: add and stop
    ELSE LET fset == IF sym \in DOMAIN F THEN F[sym] ELSE <<>>
             res2 == AddNonEps(res, fset, 1)
         IN IF EPS \notin Range(fset) /\ "epsilon" \notin Range(fset)
            THEN res2
            ELSE fosLoop(tokens, k + 1, res2, F, nts)

\* A variant of firstOfString that never reports 'ε': the allNullable case
\* is lost, so no nonterminal is ever seen as nullable.
firstOfStringNoEps(tokens, F, nts) ==
  SelectSeq(fosLoop(tokens, 1, <<>>, F, nts), LAMBDA t : t # EPS)

firstOfString(tokens, F, nts) == fosLoop(tokens, 1, <<>>, F, nts)

RECURSIVE AddAll(_, _, _)
\* for (const t of src) if (!dst.has(t)) dst.add(t)
AddAll(dst, src, k) ==
  IF k > Len(src) THEN dst ELSE AddAll(SetAdd(dst, src[k]), src, k + 1)

RECURSIVE firstPass(_, _, _, _)
\* one pass of the while (changed) loop body of computeFirst
firstPass(prods, F, a, r) ==
  IF a > Len(prods.keys) THEN F
  ELSE LET A == prods.keys[a] IN
    IF r > Len(prods.val[A]) THEN firstPass(prods, F, a + 1, 1)
    ELSE LET stringFirst == firstOfString(prods.val[A][r], F, NontermSet(prods))
         IN firstPass(prods, [F EXCEPT ![A] = AddAll(F[A], stringFirst, 1)], a, r + 1)

RECURSIVE firstLoop(_, _)
firstLoop(prods, F) ==
  LET F2 == firstPass(prods, F, 1, 1)
  IN IF F2 = F THEN F ELSE firstLoop(prods, F2)

computeFirst(prods) == firstLoop(prods, [A \in NontermSet(prods) |-> <<>>])

\* A variant of followAt without rule 3: FOLLOW(A) is never handed on to B.
followAtRule2Only(prods, F, FO, A, rhs, i) ==
  LET B == rhs[i]
      beta == SubSeq(rhs, i + 1, Len(rhs))
  IN IF Len(beta) > 0
     THEN [FO EXCEPT ![B] = AddNonEps(FO[B], firstOfString(beta, F, NontermSet(prods)), 1)]
     ELSE FO

\* Rule 2 and rule 3 of computeFollow for the occurrence of B at position i of rhs
followAt(prods, F, FO, A, rhs, i) ==
  LET B == rhs[i]
      beta == SubSeq(rhs, i + 1, Len(rhs))
      hasTrailer == Len(beta) > 0
      trailer == IF hasTrailer THEN firstOfString(beta, F, NontermSet(prods)) ELSE <<>>
      FO2 == IF hasTrailer THEN [FO EXCEPT ![B] = AddNonEps(FO[B], trailer, 1)] ELSE FO
  IN IF ~hasTrailer \/ EPS \in Range(trailer) \/ "epsilon" \in Range(trailer)
     THEN [FO2 EXCEPT ![B] = AddAll(FO2[B], FO2[A], 1)]
     ELSE FO2

RECURSIVE followPass(_, _, _, _, _, _)
followPass(prods, F, FO, a, r, i) ==
  IF a > Len(prods.keys) THEN FO
  ELSE LET A == prods.keys[a] IN
    IF r > Len(prods.val[A]) THEN followPass(prods, F, FO, a + 1, 1, 1)
    ELSE LET rhs == prods.val[A][r] IN
      IF i > Len(rhs) THEN followPass(prods, F, FO, a, r + 1, 1)
      ELSE IF rhs[i] \notin NontermSet(prods) THEN followPass(prods, F, FO, a, r, i + 1)
      ELSE followPass(prods, F, followAt(prods, F, FO, A, rhs, i), a, r, i + 1)

RECURSIVE followLoop(_, _, _)
followLoop(prods, F, FO) ==
  LET FO2 == followPass(prods, F, FO, 1, 1, 1)
  IN IF FO2 = FO THEN FO ELSE followLoop(prods, F, FO2)

\* A variant of followSeed that forgets FOLLOW[startSymbol].add('$').
followSeedNone(prods, startSymbol) == [A \in NontermSet(prods) |-> <<>>]

followSeed(prods, startSymbol) ==
  [A \in NontermSet(prods) |-> IF A = startSymbol THEN <<END>> ELSE <<>>]

computeFollow(prods, F, startSymbol) ==
  followLoop(prods, F, followSeed(prods, startSymbol))

\* identifySymbols(prods).start: Object.keys(prods)[0]
startOf(prods) == prods.keys[1]

(***************************************************************************)
(* LL(1) predictive table                                                  *)
(***************************************************************************)
\* A variant of registerRule that overwrites the cell instead of pushing: the
\* table it fills keeps only the last alternative predicted for a terminal.
registerRuleOverwrite(row, t, rhs) == MapPut(row, t, <<rhs>>)

\* table[A][t] = table[A][t] || []; push rhs unless an identical rule is there
registerRule(row, t, rhs) ==
  LET cur == IF MapHas(row, t) THEN row.val[t] ELSE <<>>
  IN MapPut(row, t, IF rhs \in Range(cur) THEN cur ELSE Append(cur, rhs))

RECURSIVE registerFirst(_, _, _, _)
\* 1. for terminal t in First(alpha), t !== 'ε', add A -> alpha
registerFirst(row, fs, rhs, k) ==
  IF k > Len(fs) THEN row
  ELSE registerFirst(IF fs[k] # EPS THEN registerRule(row, fs[k], rhs) ELSE row,
                     fs, rhs, k + 1)

RECURSIVE registerFollowPush(_, _, _, _)
\* A variant of registerFollow that pushes rhs without looking for an
\* identical rule in the cell.
registerFollowPush(row, fo, rhs, k) ==
  IF k > Len(fo) THEN row
  ELSE registerFollowPush(
         MapPut(row, fo[k], Append(IF MapHas(row, fo[k]) THEN row.val[fo[k]] ELSE <<>>, rhs)),
         fo, rhs, k + 1)

RECURSIVE registerFollow(_, _, _, _)
\* 2. for b in Follow(A), add A -> alpha
registerFollow(row, fo, rhs, k) ==
  IF k > Len(fo) THEN row
  ELSE registerFollow(registerRule(row, fo[k], rhs), fo, rhs, k + 1)

RECURSIVE fillRowAlwaysFollow(_, _, _, _, _, _)
\* A variant of fillRow that registers every alternative under FOLLOW(A),
\* without the test for 'ε' in First(alpha).
fillRowAlwaysFollow(prods, F, FO, A, row, r) ==
  IF r > Len(prods.val[A]) THEN row
  ELSE LET rhs == prods.val[A][r]
           fs == firstOfString(rhs, F, NontermSet(prods))
           row1 == registerFirst(row, fs, rhs, 1)
           row2 == registerFollow(row1, FO[A], rhs, 1)
       IN fillRowAlwaysFollow(prods, F, FO, A, row2, r + 1)

RECURSIVE fillRow(_, _, _, _, _, _)
\* the body of "for (const rhs of prods[A])" in the fill loop
fillRow(prods, F, FO, A, row, r) ==
  IF r > Len(prods.val[A]) THEN row
  ELSE LET rhs == prods.val[A][r]
           fs == firstOfString(rhs, F, NontermSet(prods))
           row1 == registerFirst(row, fs, rhs, 1)
           row2 == IF EPS \in Range(fs) THEN registerFollow(row1, FO[A], rhs, 1) ELSE row1
       IN fillRow(prods, F, FO, A, row2, r + 1)

fillTable(prods, F, FO) ==
  [A \in NontermSet(prods) |-> fillRow(prods, F, FO, A, EmptyMap, 1)]

RECURSIVE detectConflictsOver2(_, _, _, _, _)
\* A variant of detectConflicts whose threshold is length > 2: cells with
\* exactly two alternatives are not reported.
detectConflictsOver2(prods, table, conflicts, a, k) ==
  IF a > Len(prods.keys) THEN conflicts
  ELSE LET A == prods.keys[a] IN
    IF k > Len(table[A].keys) THEN detectConflictsOver2(prods, table, conflicts, a + 1, 1)
    ELSE LET t == table[A].keys[k] IN
      detectConflictsOver2(prods, table,
        IF Len(table[A].val[t]) > 2
        THEN Append(conflicts, [nonterminal |-> A, terminal |-> t, prods |-> table[A].val[t]])
        ELSE conflicts,
        a, k + 1)

RECURSIVE detectConflicts(_, _, _, _, _)
\* for A of nonterms, for t of Object.keys(table[A]): length > 1 is a conflict
detectConflicts(prods, table, conflicts, a, k) ==
  IF a > Len(prods.keys) THEN conflicts
  ELSE LET A == prods.keys[a] IN
    IF k > Len(table[A].keys) THEN detectConflicts(prods, table, conflicts, a + 1, 1)
    ELSE LET t == table[A].keys[k] IN
      detectConflicts(prods, table,
        IF Len(table[A].val[t]) > 1
        THEN Append(conflicts, [nonterminal |-> A, terminal |-> t, prods |-> table[A].val[t]])
        ELSE conflicts,
        a, k + 1)

\* the column headers: terminals of the grammar plus the FOLLOW tokens but '$'
tableTerminals(prods, FO) ==
  UNION {UNION {{t \in Range(prods.val[A][r]) : t \notin NontermSet(prods) /\ t # EPS}
                  : r \in 1..Len(prods.val[A])}
           \cup (Range(FO[A]) \ {END}) : A \in NontermSet(prods)}

buildPredictiveTable(prods, F, FO) ==
  LET table == fillTable(prods, F, FO)
  IN [table |-> table,
      conflicts |-> detectConflicts(prods, table, <<>>, 1, 1),
      terminals |-> tableTerminals(prods, FO)]

(***************************************************************************)
(* Bounded inputs: grammars  A -> alpha1 [| alpha2] ;  B -> beta           *)
(***************************************************************************)
MaxLen == 2          \* longest alternative of an input grammar

Nonterms == {"A", "B"}
Terms == {"a", "b"}

\* alternatives of at most n symbols over syms, plus the epsilon alternative
AltsUpTo(n, syms) == {<<EPS>>} \cup UNION {[1..k -> syms] : k \in 1..n}

MkGrammar(altsA, altsB) ==
  [keys |-> <<"A", "B">>,
   val  |-> [x \in Nonterms |-> IF x = "A" THEN altsA ELSE altsB]]

\* A has one short alternative and optionally a second one; B has one
GrammarsOver(syms) ==
  {MkGrammar(<<a1>>, <<b1>>) :
      a1 \in AltsUpTo(1, syms), b1 \in AltsUpTo(MaxLen, syms)}
  \cup
  {MkGrammar(<<a1, a2>>, <<b1>>) :
      a1 \in AltsUpTo(1, syms), a2 \in AltsUpTo(MaxLen, syms), b1 \in AltsUpTo(MaxLen, syms)}

(***************************************************************************)
(* The LL(1) tool: parse, computeFirst, computeFollow, buildPredictiveTable*)
(***************************************************************************)
InitLL1 ==
  /\ pc = "parsed"
  /\ TextIdle
  /\ g \in GrammarsOver(Nonterms \cup Terms)
  /\ FIRST = None /\ FOLLOW = None /\ ll1 = None
  /\ lr = None /\ lf = None
  /\ nfa = None /\ dfa = None /\ cdfa = None /\ mdfa = None /\ mdfa2 = None

RunFirst ==
  /\ pc = "parsed"
  /\ FIRST' = computeFirst(g)
  /\ pc' = "first"
  /\ UNCHANGED <<textVars, g, FOLLOW, ll1, lr, lf, nfa, dfa, cdfa, mdfa, mdfa2>>

RunFollow ==
  /\ pc = "first"
  /\ FOLLOW' = computeFollow(g, FIRST, startOf(g))
  /\ pc' = "follow"
  /\ UNCHANGED <<textVars, g, FIRST, ll1, lr, lf, nfa, dfa, cdfa, mdfa, mdfa2>>

RunTable ==
  /\ pc = "follow"
  /\ ll1' = buildPredictiveTable(g, FIRST, FOLLOW)
  /\ pc' = "ll1"
  /\ UNCHANGED <<textVars, g, FIRST, FOLLOW, lr, lf, nfa, dfa, cdfa, mdfa, mdfa2>>

NextLL1 == RunFirst \/ RunFollow \/ RunTable

SpecLL1 == InitLL1 /\ [][NextLL1]_vars

(***************************************************************************)
(* Reference notions, defined from derivations of the grammar alone        *)
(***************************************************************************)
\* the alternatives of A, as a set
AltSet(prods, A) == Range(prods.val[A])

RECURSIVE RefNullableFrom(_, _)
\* least set N with: A in N when some alternative of A consists of epsilon
\* markers and members of N only, i.e. A derives the empty string
RefNullableFrom(prods, N) ==
  LET N2 == N \cup {A \in NontermSet(prods) :
                \E alt \in AltSet(prods, A) : \A k \in 1..Len(alt) : alt[k] = EPS \/ alt[k] \in N}
  IN IF N2 = N THEN N ELSE RefNullableFrom(prods, N2)

RefNullable(prods) == RefNullableFrom(prods, {})

\* X can be the first symbol left of an alternative of A once a nullable prefix vanished
RefBegins(prods, A, X) ==
  \E alt \in AltSet(prods, A) : \E k \in 1..Len(alt) :
     /\ alt[k] = X
     /\ X # EPS
     /\ \A j \in 1..(k - 1) : alt[j] = EPS \/ alt[j] \in RefNullable(prods)

RECURSIVE RefReach(_, _)
\* the symbols some sentential form derived from a member of S can begin with
RefReach(prods, S) ==
  LET S2 == S \cup {X \in Nonterms \cup Terms \cup {END} :
                \E Y \in S \cap NontermSet(prods) : RefBegins(prods, Y, X)}
  IN IF S2 = S THEN S ELSE RefReach(prods, S2)

\* the textbook FIRST set of nonterminal A
RefFirst(prods, A) ==
  {t \in RefReach(prods, {A}) : t \notin NontermSet(prods)}
    \cup (IF A \in RefNullable(prods) THEN {EPS} ELSE {})

\* epsilon occurs only as the sole symbol of an alternative
EpsOnlySole(prods) ==
  \A A \in NontermSet(prods) : \A alt \in AltSet(prods, A) :
     EPS \in Range(alt) => alt = <<EPS>>

\* '$' occurs in no production
NoEndMarker(prods) ==
  \A A \in NontermSet(prods) : \A alt \in AltSet(prods, A) : END \notin Range(alt)

(***************************************************************************)
(* Claims about FIRST, FOLLOW and the predictive table                     *)
(***************************************************************************)
\* cell (A, x) of the table, as a set of alternatives (empty when absent)
Cell(A, x) ==
  IF MapHas(ll1.table[A], x) THEN Range(ll1.table[A].val[x]) ELSE {}

\* the set firstOfString(alpha) under the computed FIRST table
FosSet(alpha) == Range(firstOfString(alpha, FIRST, NontermSet(g)))

\* every symbol that could key a cell
CellKeys == Nonterms \cup Terms \cup {EPS, END, "epsilon"}

\* C1: alternative alpha of A is in cell (A, x) iff x is a non-epsilon member
\* of firstOfString(alpha), or epsilon is in firstOfString(alpha) and x is in
\* FOLLOW(A); no cell holds anything else and no cell is keyed by epsilon.
C1_TableCells ==
  pc = "ll1" =>
    \A A \in NontermSet(g) :
      /\ \A x \in CellKeys : \A alpha \in AltSet(g, A) :
           alpha \in Cell(A, x) <=>
             \/ (x # EPS /\ x \in FosSet(alpha))
             \/ (EPS \in FosSet(alpha) /\ x \in Range(FOLLOW[A]))
      /\ Range(ll1.table[A].keys) \subseteq CellKeys
      /\ \A x \in Range(ll1.table[A].keys) : Cell(A, x) \subseteq AltSet(g, A)
      /\ ~MapHas(ll1.table[A], EPS)

\* an alternative entered one cell through FIRST and another through FOLLOW
C1_Witness ==
  /\ pc = "ll1"
  /\ \E A \in NontermSet(g) : \E alpha, beta \in AltSet(g, A) :
       /\ EPS \in FosSet(alpha) /\ \E x \in Range(FOLLOW[A]) : alpha \in Cell(A, x)
       /\ \E x \in FosSet(beta) \ {EPS} : beta \in Cell(A, x) /\ x \notin Range(FOLLOW[A])

\* the entries of the conflict list for cell (A, t)
ConflictsAt(A, t) ==
  {k \in 1..Len(ll1.conflicts) :
      ll1.conflicts[k].nonterminal = A /\ ll1.conflicts[k].terminal = t}

\* C2: the conflict list has exactly one entry (A, t, the cell's alternatives)
\* for every cell with two or more alternatives and no other entry; it is
\* empty iff every cell holds at most one alternative.
C2_Conflicts ==
  pc = "ll1" =>
    /\ \A A \in NontermSet(g) : \A t \in Range(ll1.table[A].keys) :
         IF Len(ll1.table[A].val[t]) >= 2
         THEN /\ Cardinality(ConflictsAt(A, t)) = 1
              /\ \A k \in ConflictsAt(A, t) : ll1.conflicts[k].prods = ll1.table[A].val[t]
         ELSE ConflictsAt(A, t) = {}
    /\ \A k \in 1..Len(ll1.conflicts) :
         /\ ll1.conflicts[k].nonterminal \in NontermSet(g)
         /\ MapHas(ll1.table[ll1.conflicts[k].nonterminal], ll1.conflicts[k].terminal)
    /\ (ll1.conflicts = <<>>) <=>
         \A A \in NontermSet(g) : \A t \in Range(ll1.table[A].keys) :
            Len(ll1.table[A].val[t]) <= 1

\* a table with a conflicting cell and a singleton cell in the same row
C2_Witness ==
  /\ pc = "ll1"
  /\ \E A \in NontermSet(g) : \E t, u \in Range(ll1.table[A].keys) :
       /\ Len(ll1.table[A].val[t]) >= 2
       /\ Len(ll1.table[A].val[u]) = 1
       /\ Len(ll1.conflicts) >= 1

\* C3: when epsilon occurs only as a sole symbol and '$' in no production,
\* FIRST(A) is exactly the reference FIRST set of A: the terminals that begin
\* a sentential form derived from A, plus epsilon iff A derives the empty
\* string; it holds neither '$' nor a nonterminal.
C3_FirstIsReference ==
  (pc \in {"first", "follow", "ll1"} /\ EpsOnlySole(g) /\ NoEndMarker(g)) =>
    \A A \in NontermSet(g) :
      /\ Range(FIRST[A]) = RefFirst(g, A)
      /\ END \notin Range(FIRST[A])
      /\ Range(FIRST[A]) \cap NontermSet(g) = {}

\* FIRST(A) gets a terminal through a nullable B, and A itself is nullable
C3_Witness ==
  /\ pc = "first" /\ EpsOnlySole(g) /\ NoEndMarker(g)
  /\ "B" \in RefNullable(g) /\ "A" \in RefNullable(g)
  /\ \E alt \in AltSet(g, "A") : Len(alt) = 2 /\ alt[1] = "B" /\ alt[2] \in Terms
                                  /\ alt[2] \in Range(FIRST["A"])
  /\ EPS \in Range(FIRST["A"])

\* C4: '$' is in FOLLOW(start) and no FOLLOW set contains epsilon.
C4_FollowEndNoEps ==
  pc \in {"follow", "ll1"} =>
    /\ END \in Range(FOLLOW[startOf(g)])
    /\ \A A \in NontermSet(g) : EPS \notin Range(FOLLOW[A])

\* some nonterminal occurrence is followed by a suffix whose FIRST has epsilon
C4_Witness ==
  /\ pc = "follow"
  /\ \E A \in NontermSet(g) : \E alt \in AltSet(g, A) :
       /\ Len(alt) = 2
       /\ alt[1] \in NontermSet(g) /\ alt[2] \in NontermSet(g)
       /\ EPS \in Range(FIRST[alt[2]])
       /\ Range(FIRST[alt[2]]) # {EPS}
       /\ FOLLOW[alt[1]] # <<>>

(***************************************************************************)
(* Left recursion elimination                                              *)
(***************************************************************************)
MaxNonterms == 6     \* the outer loop is followed while the order is shorter

\* (d.length === 1 && d[0] === 'ε') ? [] : d
dropEps(d) == IF Len(d) = 1 /\ d[1] = EPS THEN <<>> ELSE d

RECURSIVE substDeltas(_, _, _, _)
\* for (const delta of prods[Aj]): push effectiveDelta.concat(gamma), or ['ε']
substDeltas(newR, deltas, gamma, k) ==
  IF k > Len(deltas) THEN newR
  ELSE LET combined == dropEps(deltas[k]) \o gamma
       IN substDeltas(Append(newR, IF Len(combined) = 0 THEN <<EPS>> ELSE combined),
                      deltas, gamma, k + 1)

RECURSIVE substAlts(_, _, _, _, _)
\* for (const rhs of prods[Ai]): substitute the alternatives of Aj for a leading Aj
substAlts(newR, rhss, Aj, deltas, r) ==
  IF r > Len(rhss) THEN newR
  ELSE LET rhs == rhss[r] IN
    IF Len(rhs) > 0 /\ rhs[1] = Aj
    THEN substAlts(substDeltas(newR, deltas, Tail(rhs), 1), rhss, Aj, deltas, r + 1)
    ELSE substAlts(Append(newR, rhs), rhss, Aj, deltas, r + 1)

RECURSIVE elimIndirect(_, _, _, _)
\* Step 1: for (let j = 0; j < i; j++) rewrite prods[Ai] through nonterms[j]
elimIndirect(prods, nonterms, i, j) ==
  IF j >= i THEN prods
  ELSE LET Ai == nonterms[i + 1]
           Aj == nonterms[j + 1]
           newR == substAlts(<<>>, prods.val[Ai], Aj, prods.val[Aj], 1)
       IN elimIndirect(MapPut(prods, Ai, newR), nonterms, i, j + 1)

RECURSIVE primeName(_, _)
\* let prime = Ai + "'"; while (prods[prime]) prime += "'"
primeName(prods, prime) ==
  IF MapHas(prods, prime) THEN primeName(prods, prime \o "'") ELSE prime

RECURSIVE splitAlphas(_, _, _, _)
\* alphas: the rests of the alternatives that begin with Ai ('ε' when empty)
splitAlphas(alphas, rhss, Ai, r) ==
  IF r > Len(rhss) THEN alphas
  ELSE LET rhs == rhss[r] IN
    splitAlphas(IF Len(rhs) > 0 /\ rhs[1] = Ai
                THEN Append(alphas, IF Len(rhs) > 1 THEN Tail(rhs) ELSE <<EPS>>)
                ELSE alphas,
                rhss, Ai, r + 1)

\* A variant of splitBetas that keeps the alternatives that begin with Ai too.
splitBetasAll(rhss, Ai) == rhss

\* betas: the alternatives that do not begin with Ai
splitBetas(rhss, Ai) == SelectSeq(rhss, LAMBDA rhs : ~(Len(rhs) > 0 /\ rhs[1] = Ai))

\* each element with its epsilon dropped, followed by prime
withPrime(list, prime) == [k \in 1..Len(list) |-> dropEps(list[k]) \o <<prime>>]

\* A variant of elimImmediate that omits the 'ε' alternative of the primed
\* nonterminal, so that the recursion A' -> alpha A' can never end.
elimImmediateNoEps(prods, nonterms, Ai) ==
  LET alphas == splitAlphas(<<>>, prods.val[Ai], Ai, 1)
      betas == splitBetas(prods.val[Ai], Ai)
  IN IF Len(alphas) > 0
     THEN LET prime == primeName(prods, Ai \o "'")
              p1 == MapPut(prods, prime, <<>>)
              p2 == MapPut(p1, Ai, withPrime(betas, prime))
              p3 == MapPut(p2, prime, withPrime(alphas, prime))
          IN [prods |-> p3, nonterms |-> Append(nonterms, prime)]
     ELSE [prods |-> prods, nonterms |-> nonterms]

\* Step 2: remove the immediate left recursion of Ai; returns [prods, nonterms]
elimImmediate(prods, nonterms, Ai) ==
  LET alphas == splitAlphas(<<>>, prods.val[Ai], Ai, 1)
      betas == splitBetas(prods.val[Ai], Ai)
  IN IF Len(alphas) > 0
     THEN LET prime == primeName(prods, Ai \o "'")
              p1 == MapPut(prods, prime, <<>>)
              p2 == MapPut(p1, Ai, withPrime(betas, prime))
              p3 == MapPut(p2, prime, Append(withPrime(alphas, prime), <<EPS>>))
          IN [prods |-> p3, nonterms |-> Append(nonterms, prime)]
     ELSE [prods |-> prods, nonterms |-> nonterms]

\* the body of the outer loop for index i (0-based, as in the source)
lrIteration(st) ==
  LET p1 == elimIndirect(st.prods, st.nonterms, st.i, 0)
      res == elimImmediate(p1, st.nonterms, st.nonterms[st.i + 1])
  IN [prods |-> res.prods, nonterms |-> res.nonterms, i |-> st.i + 1]

\* the loop condition i < nonterms.length
lrLoopCond(st) == st.i < Len(st.nonterms)

InitLR ==
  /\ pc = "parsed"
  /\ TextIdle
  /\ g \in GrammarsOver(Nonterms \cup Terms)
  /\ FIRST = None /\ FOLLOW = None /\ ll1 = None
  /\ lr = None /\ lf = None
  /\ nfa = None /\ dfa = None /\ cdfa = None /\ mdfa = None /\ mdfa2 = None

\* deep copy of prods0, nonterms = Object.keys(prods), i = 0
LrStart ==
  /\ pc = "parsed"
  /\ lr' = [prods |-> g, nonterms |-> g.keys, i |-> 0]
  /\ pc' = "lr"
  /\ UNCHANGED <<textVars, g, FIRST, FOLLOW, ll1, lf, nfa, dfa, cdfa, mdfa, mdfa2>>

\* one iteration of the outer loop
LrStep ==
  /\ pc = "lr"
  /\ lrLoopCond(lr)
  /\ Len(lr.nonterms) < MaxNonterms
  /\ lr' = lrIteration(lr)
  /\ UNCHANGED <<pc, textVars, g, FIRST, FOLLOW, ll1, lf, nfa, dfa, cdfa, mdfa, mdfa2>>

\* return prods
LrReturn ==
  /\ pc = "lr"
  /\ ~lrLoopCond(lr)
  /\ pc' = "lrDone"
  /\ UNCHANGED <<textVars, g, FIRST, FOLLOW, ll1, lr, lf, nfa, dfa, cdfa, mdfa, mdfa2>>

NextLR == LrStart \/ LrStep \/ LrReturn

SpecLR == InitLR /\ [][NextLR]_vars

\* the specification under which the loop, while it can run, does run
FairSpecLR == SpecLR /\ WF_vars(NextLR)

(***************************************************************************)
(* Claims about left recursion elimination                                 *)
(***************************************************************************)
MaxWord == 3         \* longest terminal string compared between two grammars

\* some alternative of A begins with the nonterminal B
BeginsWith(prods, A, B) ==
  /\ B \in NontermSet(prods)
  /\ \E alt \in AltSet(prods, A) : Len(alt) > 0 /\ alt[1] = B

RECURSIVE LeftReach(_, _)
\* the nonterminals reached from S in one or more BeginsWith steps, with S's
\* successors as the starting set
LeftReach(prods, S) ==
  LET S2 == S \cup {B \in NontermSet(prods) : \E A \in S : BeginsWith(prods, A, B)}
  IN IF S2 = S THEN S ELSE LeftReach(prods, S2)

LeftRecursive(prods, A) ==
  A \in LeftReach(prods, {B \in NontermSet(prods) : BeginsWith(prods, A, B)})

\* C5: the grammar eliminateLeftRecursion returns has no direct or indirect
\* left recursion: no nonterminal reaches itself through 'begins with'.
C5_NoLeftRecursion ==
  pc = "lrDone" => \A A \in NontermSet(lr.prods) : ~LeftRecursive(lr.prods, A)

\* the words of at most MaxWord terminals that u.v ranges over
Concat(U, V) == {u \o v : <<u, v>> \in {p \in U \X V : Len(p[1]) + Len(p[2]) <= MaxWord}}

RECURSIVE AltLang(_, _, _, _)
\* the terminal strings (up to MaxWord) derived from alt[k..], given the
\* strings L[X] known for each nonterminal X; epsilon reads as the empty string
AltLang(prods, L, alt, k) ==
  IF k > Len(alt) THEN {<<>>}
  ELSE LET sym == alt[k]
           here == IF sym = EPS THEN {<<>>}
                   ELSE IF sym \in NontermSet(prods) THEN L[sym]
                   ELSE {<<sym>>}
       IN Concat(here, AltLang(prods, L, alt, k + 1))

RECURSIVE LangFix(_, _)
LangFix(prods, L) ==
  LET L2 == [A \in NontermSet(prods) |->
               L[A] \cup UNION {AltLang(prods, L, alt, 1) : alt \in AltSet(prods, A)}]
  IN IF L2 = L THEN L ELSE LangFix(prods, L2)

\* the terminal strings of length <= MaxWord derivable from nonterminal S
Lang(prods, S) == LangFix(prods, [A \in NontermSet(prods) |-> {}])[S]

\* C6: a terminal string up to MaxWord symbols is derivable from the start
\* symbol of the output grammar iff it is derivable from the start symbol of
\* the input grammar.
C6_LanguagePreserved ==
  pc = "lrDone" => Lang(lr.prods, startOf(lr.prods)) = Lang(g, startOf(g))

\* an indirectly left-recursive input was rewritten and derives several words
C6_Witness ==
  /\ pc = "lrDone"
  /\ Len(lr.nonterms) > Len(g.keys)
  /\ LeftRecursive(g, "B") /\ ~BeginsWith(g, "B", "B")
  /\ Cardinality(Lang(g, startOf(g))) >= 3
  /\ \E w \in Lang(lr.prods, startOf(lr.prods)) : "a" \in Range(w) /\ "b" \in Range(w)

\* C7: eliminateLeftRecursion terminates on every well-formed grammar, only
\* finitely many primed nonterminals being introduced: while the loop has not
\* finished, the order it iterates over is shorter than MaxNonterms, so the
\* next iteration is taken and the function returns.
C7_Terminates ==
  (pc = "lr" /\ lrLoopCond(lr)) => Len(lr.nonterms) < MaxNonterms

\* the configuration met on  A -> A : the current nonterminal X is the last
\* of the order and its alternatives are  X | epsilon
LrUnitLoop ==
  /\ pc = "lr"
  /\ lr.i + 1 = Len(lr.nonterms)
  /\ lr.prods.val[lr.nonterms[lr.i + 1]] = <<<<lr.nonterms[lr.i + 1]>>, <<EPS>>>>

\* every iteration from that configuration leads to the same configuration
\* for a fresh primed name, so the loop condition never becomes false
LrUnitLoopPersists == [][LrUnitLoop => LrUnitLoop']_vars

(***************************************************************************)
(* Left factoring (single pass)                                            *)
(***************************************************************************)
MaxLenLF == 3        \* longest alternative of a grammar given to leftFactor

RECURSIVE groupByFirst(_, _, _)
\* groups[firstSym].push(rhs) for every non-empty rhs, in order
groupByFirst(groups, rhss, r) ==
  IF r > Len(rhss) THEN groups
  ELSE LET rhs == rhss[r] IN
    IF Len(rhs) = 0 THEN groupByFirst(groups, rhss, r + 1)
    ELSE LET cur == IF MapHas(groups, rhs[1]) THEN groups.val[rhs[1]] ELSE <<>>
         IN groupByFirst(MapPut(groups, rhs[1], Append(cur, rhs)), rhss, r + 1)

RECURSIVE commonLen(_, _, _)
\* while (k < prefix.length && k < current.length && prefix[k] === current[k]) k++
commonLen(prefix, current, k) ==
  IF k < Len(prefix) /\ k < Len(current) /\ prefix[k + 1] = current[k + 1]
  THEN commonLen(prefix, current, k + 1)
  ELSE k

RECURSIVE longestPrefix(_, _, _)
\* the longest common prefix of the group, starting from prefix = group[0]
longestPrefix(prefix, group, i) ==
  IF i > Len(group) \/ Len(prefix) = 0 THEN prefix
  ELSE longestPrefix(SubSeq(prefix, 1, commonLen(prefix, group[i], 0)), group, i + 1)

RECURSIVE factName(_, _, _, _)
\* let prime = A + "_fact"; while (prods[prime]) prime = A + "_fact" + counter++
factName(prods, A, prime, counter) ==
  IF MapHas(prods, prime)
  THEN factName(prods, A, A \o "_fact" \o ToString(counter), counter + 1)
  ELSE prime

\* the remainders of the group's members after the prefix ('ε' when empty)
remainders(group, n) ==
  [k \in 1..Len(group) |->
     IF Len(group[k]) > n THEN SubSeq(group[k], n + 1, Len(group[k])) ELSE <<EPS>>]

\* A variant of factorGroup that factors only groups of more than two
\* alternatives: a pair sharing a first symbol is left as it is.
factorGroupOver2(prods, A, group) ==
  LET prefix == longestPrefix(group[1], group, 2)
  IN IF Len(group) > 2 /\ Len(prefix) > 0
     THEN LET prime == factName(prods, A, A \o "_fact", 1)
              newA == Append(SelectSeq(prods.val[A], LAMBDA r : r \notin Range(group)),
                             prefix \o <<prime>>)
          IN MapPut(MapPut(prods, A, newA), prime, remainders(group, Len(prefix)))
     ELSE prods

\* Factor one group of A.  prods[A].filter(r => !group.includes(r)) compares
\* array identities; the members of the group are exactly the elements of
\* prods[A] that begin with the group's key (alternatives added for earlier
\* groups begin with another key), so comparing values removes the same ones.
factorGroup(prods, A, group) ==
  LET prefix == longestPrefix(group[1], group, 2)
  IN IF Len(group) > 1 /\ Len(prefix) > 0
     THEN LET prime == factName(prods, A, A \o "_fact", 1)
              newA == Append(SelectSeq(prods.val[A], LAMBDA r : r \notin Range(group)),
                             prefix \o <<prime>>)
          IN MapPut(MapPut(prods, A, newA), prime, remainders(group, Len(prefix)))
     ELSE prods

RECURSIVE factorGroups(_, _, _, _)
\* for (const key of Object.keys(groups)) ...
factorGroups(prods, A, groups, k) ==
  IF k > Len(groups.keys) THEN prods
  ELSE factorGroups(factorGroup(prods, A, groups.val[groups.keys[k]]), A, groups, k + 1)

RECURSIVE factorNonterms(_, _, _)
\* for (const A of originalNonTerms) ...
factorNonterms(prods, originalNonTerms, a) ==
  IF a > Len(originalNonTerms) THEN prods
  ELSE LET A == originalNonTerms[a]
           rhss == prods.val[A]
       IN IF Len(rhss) < 2 THEN factorNonterms(prods, originalNonTerms, a + 1)
          ELSE factorNonterms(factorGroups(prods, A, groupByFirst(EmptyMap, rhss, 1), 1),
                              originalNonTerms, a + 1)

leftFactor(prods0) == factorNonterms(prods0, prods0.keys, 1)

\* A -> alpha1 | alpha2 | alpha3 ;  B -> beta1 | beta2
GrammarsLF ==
  {MkGrammar(<<a1, a2, a3>>, <<b1, b2>>) :
      a1 \in AltsUpTo(1, Terms),
      a2 \in AltsUpTo(MaxLenLF, Terms), a3 \in AltsUpTo(MaxLenLF, Terms),
      b1 \in AltsUpTo(1, {"a"}), b2 \in AltsUpTo(1, {"a"})}

InitLF ==
  /\ pc = "parsed"
  /\ TextIdle
  /\ g \in GrammarsLF
  /\ FIRST = None /\ FOLLOW = None /\ ll1 = None
  /\ lr = None /\ lf = None
  /\ nfa = None /\ dfa = None /\ cdfa = None /\ mdfa = None /\ mdfa2 = None

RunLeftFactor ==
  /\ pc = "parsed"
  /\ lf' = leftFactor(g)
  /\ pc' = "lfDone"
  /\ UNCHANGED <<textVars, g, FIRST, FOLLOW, ll1, lr, nfa, dfa, cdfa, mdfa, mdfa2>>

NextLF == RunLeftFactor

SpecLF == InitLF /\ [][NextLF]_vars

\* two distinct alternatives of A begin with the same symbol
SharesFirst(prods, A) ==
  \E x, y \in AltSet(prods, A) : x # y /\ Len(x) > 0 /\ Len(y) > 0 /\ x[1] = y[1]

DeadCode == 100
EmptySetCode == 99

NoState == <<>>      \* undefined: no transition

\* transitions[s] && transitions[s][sym], for an NFA: the destination set
nfaDelta(transitions, st, sym) ==
  IF st \in DOMAIN transitions /\ sym \in DOMAIN transitions[st]
  THEN transitions[st][sym] ELSE {}

\* A variant of epsilonClosureCombined that follows 'ε' transitions one step
\* only, without the worklist.
epsilonClosureOneStep(stateSet, transitions) ==
  stateSet \cup UNION {nfaDelta(transitions, st, EPS) : st \in stateSet}

RECURSIVE epsilonClosureCombined(_, _)
\* worklist expansion along 'ε' transitions until nothing new is reached
epsilonClosureCombined(stateSet, transitions) ==
  LET more == stateSet \cup UNION {nfaDelta(transitions, st, EPS) : st \in stateSet}
  IN IF more = stateSet THEN stateSet ELSE epsilonClosureCombined(more, transitions)

moveNFACombined(stateSet, sym, transitions) ==
  UNION {nfaDelta(transitions, st, sym) : st \in stateSet}

\* arr.sort(); arr.join(',') || '∅'
setName(set) ==
  IF set = {} THEN <<EmptySetCode>>
  ELSE SortSeq(CHOOSE sq \in [1..Cardinality(set) -> set] : Range(sq) = set,
               LAMBDA x, y : x < y)

\* trans[a] of a DFA transition table, NoState when undefined
dfaDelta(transitions, st, a) ==
  IF st \in DOMAIN transitions /\ a \in DOMAIN transitions[st]
  THEN transitions[st][a] ELSE NoState

\* transitions[st][a] = to, creating transitions[st] when absent
setDelta(transitions, st, a, to) ==
  LET old == IF st \in DOMAIN transitions THEN transitions[st] ELSE <<>>
      row == [x \in DOMAIN old \cup {a} |-> IF x = a THEN to ELSE old[x]]
  IN [x \in DOMAIN transitions \cup {st} |-> IF x = st THEN row ELSE transitions[x]]

\* if (!dfaTrans[st]) dfaTrans[st] = {}
touchRow(transitions, st) ==
  IF st \in DOMAIN transitions THEN transitions
  ELSE [x \in DOMAIN transitions \cup {st} |-> IF x = st THEN <<>> ELSE transitions[x]]

hasAccept(set, accepts) == set \cap Range(accepts) # {}

RECURSIVE subsetSymbols(_, _, _, _)
\* for (const sym of symbols) in the worklist loop, for the dequeued curSet;
\* w = [states, queue, seen, accepts, trans]
subsetSymbols(nfa0, w, curSet, k) ==
  IF k > Len(nfa0.alphabet) THEN w
  ELSE LET sym == nfa0.alphabet[k]
           moved == moveNFACombined(curSet, sym, nfa0.transitions)
       IN IF moved = {} THEN subsetSymbols(nfa0, w, curSet, k + 1)
          ELSE LET closure == epsilonClosureCombined(moved, nfa0.transitions)
                   name == setName(closure)
                   new == name \notin w.seen
                   w2 == [states |-> IF new THEN Append(w.states, name) ELSE w.states,
                          queue  |-> IF new THEN Append(w.queue, closure) ELSE w.queue,
                          seen   |-> w.seen \cup {name},
                          accepts |-> IF new /\ hasAccept(closure, nfa0.accepts)
                                      THEN SetAdd(w.accepts, name) ELSE w.accepts,
                          trans  |-> setDelta(w.trans, setName(curSet), sym, name)]
               IN subsetSymbols(nfa0, w2, curSet, k + 1)

RECURSIVE subsetLoop(_, _)
\* while (queue.length) { curSet = queue.shift(); ... }
subsetLoop(nfa0, w) ==
  IF Len(w.queue) = 0 THEN w
  ELSE LET curSet == Head(w.queue)
           w1 == [w EXCEPT !.queue = Tail(w.queue),
                           !.trans = touchRow(w.trans, setName(curSet))]
       IN subsetLoop(nfa0, subsetSymbols(nfa0, w1, curSet, 1))

nfaToDfaCombined(nfa0) ==
  LET startClosure == epsilonClosureCombined({nfa0.start}, nfa0.transitions)
      startName == setName(startClosure)
      w0 == [states |-> <<startName>>,
             queue  |-> <<startClosure>>,
             seen   |-> {startName},
             accepts |-> IF hasAccept(startClosure, nfa0.accepts)
                         THEN <<startName>> ELSE <<>>,
             trans  |-> <<>>]
      w == subsetLoop(nfa0, w0)
  IN [states |-> w.states, alphabet |-> nfa0.alphabet, start |-> startName,
      accepts |-> w.accepts, transitions |-> w.trans]

RECURSIVE deadName(_, _)
\* let dead = '⊥'; while (newStates.includes(dead)) dead += "'"
deadName(states, code) ==
  IF <<code>> \in Range(states) THEN deadName(states, code + 1) ELSE <<code>>

\* A variant of completeRows that leaves a missing transition missing.
completeRowsKeep(d, dead) ==
  [st \in Range(d.states) |->
     [a \in {x \in Range(d.alphabet) : dfaDelta(d.transitions, st, x) # NoState} |->
        dfaDelta(d.transitions, st, a)]]

\* newTrans[s][a] = tOld[a] ? tOld[a] : dead, for every state and symbol
completeRows(d, dead) ==
  [st \in Range(d.states) |->
     [a \in Range(d.alphabet) |->
        IF dfaDelta(d.transitions, st, a) # NoState
        THEN dfaDelta(d.transitions, st, a) ELSE dead]]

needDead(d) ==
  \E st \in Range(d.states) : \E a \in Range(d.alphabet) :
     dfaDelta(d.transitions, st, a) = NoState

RECURSIVE Dedup(_, _, _)
\* Array.from(new Set(seq)): the first occurrences, in order
Dedup(out, seq, k) ==
  IF k > Len(seq) THEN out ELSE Dedup(SetAdd(out, seq[k]), seq, k + 1)

completeDFACombined(d) ==
  LET dead == deadName(d.states, DeadCode)
      rows == completeRows(d, dead)
  IN IF needDead(d)
     THEN [states |-> Append(d.states, dead),
           alphabet |-> d.alphabet,
           start |-> d.start,
           accepts |-> Dedup(<<>>, d.accepts, 1),
           transitions |->
             [st \in Range(d.states) \cup {dead} |->
                IF st \in Range(d.states) THEN rows[st]
                ELSE [a \in Range(d.alphabet) |-> dead]]]
     ELSE [states |-> d.states, alphabet |-> d.alphabet, start |-> d.start,
           accepts |-> Dedup(<<>>, d.accepts, 1), transitions |-> rows]

RECURSIVE reachableFrom(_, _)
\* forward closure from the start state over the transitions on the alphabet
reachableFrom(d, R) ==
  LET R2 == R \cup ({dfaDelta(d.transitions, st, a) :
                       st \in R, a \in Range(d.alphabet)} \ {NoState})
  IN IF R2 = R THEN R ELSE reachableFrom(d, R2)

removeUnreachableDFACombined(d) ==
  LET reachable == reachableFrom(d, {d.start})
      newStates == SelectSeq(d.states, LAMBDA st : st \in reachable)
  IN [states |-> newStates,
      alphabet |-> d.alphabet,
      start |-> d.start,
      accepts |-> SelectSeq(d.accepts, LAMBDA st : st \in reachable),
      transitions |->
        [st \in Range(newStates) |->
           [a \in {x \in Range(d.alphabet) :
                     /\ dfaDelta(d.transitions, st, x) # NoState
                     /\ dfaDelta(d.transitions, st, x) \in reachable} |->
              dfaDelta(d.transitions, st, a)]]]

RECURSIVE blockIndexFrom(_, _, _)
\* the 0-based index of the first block that has st, -1 when none has
blockIndexFrom(st, blocks, k) ==
  IF k > Len(blocks) THEN -1
  ELSE IF st \in Range(blocks[k]) THEN k - 1
  ELSE blockIndexFrom(st, blocks, k + 1)

blockIndex(st, blocks) == blockIndexFrom(st, blocks, 1)

\* A variant of signature that looks at the first alphabet symbol only.
signatureFirstOnly(d, st, P) ==
  [k \in 1..(IF Len(d.alphabet) > 0 THEN 1 ELSE 0) |->
     LET to == dfaDelta(d.transitions, st, d.alphabet[k])
     IN IF to # NoState THEN blockIndex(to, P) ELSE -1]

\* sig: for each alphabet symbol in order, the block index of the destination
signature(d, st, P) ==
  [k \in 1..Len(d.alphabet) |->
     LET to == dfaDelta(d.transitions, st, d.alphabet[k])
     IN IF to # NoState THEN blockIndex(to, P) ELSE -1]

RECURSIVE groupBySig(_, _, _, _, _)
\* groups: Map from signature to the Set of the block's states that have it
groupBySig(d, P, groups, block, k) ==
  IF k > Len(block) THEN groups
  ELSE LET sig == signature(d, block[k], P)
           cur == IF MapHas(groups, sig) THEN groups.val[sig] ELSE <<>>
       IN groupBySig(d, P, MapPut(groups, sig, SetAdd(cur, block[k])), block, k + 1)

RECURSIVE refinePass(_, _, _, _)
\* one pass of the while (changed) loop: newP from P
refinePass(d, P, newP, b) ==
  IF b > Len(P) THEN newP
  ELSE LET block == P[b] IN
    IF Len(block) <= 1 THEN refinePass(d, P, Append(newP, block), b + 1)
    ELSE LET groups == groupBySig(d, P, EmptyMap, block, 1)
         IN IF Len(groups.keys) = 1
            THEN refinePass(d, P, Append(newP, block), b + 1)
            ELSE refinePass(d, P,
                   newP \o [k \in 1..Len(groups.keys) |-> groups.val[groups.keys[k]]],
                   b + 1)

\* A variant of refineLoop that makes one pass only instead of repeating until
\* a pass splits nothing.
refineLoopOnePass(d, P) == refinePass(d, P, <<>>, 1)

RECURSIVE refineLoop(_, _)
\* changed is true exactly when some block was split, i.e. when newP # P
refineLoop(d, P) ==
  LET newP == refinePass(d, P, <<>>, 1)
  IN IF newP = P THEN P ELSE refineLoop(d, newP)

\* the string order of state names: lexicographic, a proper prefix first
RECURSIVE NameLess(_, _)
NameLess(x, y) ==
  IF Len(y) = 0 THEN FALSE
  ELSE IF Len(x) = 0 THEN TRUE
  ELSE IF Head(x) # Head(y) THEN Head(x) < Head(y)
  ELSE NameLess(Tail(x), Tail(y))

RECURSIVE Flatten(_)
\* arr.join(','): the codes of all the names, in order
Flatten(names) == IF names = <<>> THEN <<>> ELSE Head(names) \o Flatten(Tail(names))

\* Array.from(block).sort().join(',')
blockName(block) == Flatten(SortSeq(block, NameLess))

RECURSIVE classNames(_, _, _)
\* className.set(s, name) for every member of every block, in order
classNames(cn, P, b) ==
  IF b > Len(P) THEN cn
  ELSE classNames([st \in DOMAIN cn \cup Range(P[b]) |->
                     IF st \in Range(P[b]) THEN blockName(P[b]) ELSE cn[st]],
                  P, b + 1)

\* name.split(',').some(s => acceptSet.has(s))
splitAccepts(name, accepts) == \E k \in 1..Len(name) : <<name[k]>> \in Range(accepts)

RECURSIVE blockTrans(_, _, _, _, _)
\* newTrans[repName] = {} and its entries, from the first member of each block
blockTrans(d, P, cn, newTrans, b) ==
  IF b > Len(P) THEN newTrans
  ELSE LET rep == P[b][1]
           repName == cn[rep]
           row == [a \in {x \in Range(d.alphabet) : dfaDelta(d.transitions, rep, x) # NoState} |->
                     cn[dfaDelta(d.transitions, rep, a)]]
       IN blockTrans(d, P, cn,
            [st \in DOMAIN newTrans \cup {repName} |->
               IF st = repName THEN row ELSE newTrans[st]],
            b + 1)

\* P = [new Set(finals), new Set(nonFinals)] without the empty ones
initialPartition(d) ==
  LET finals == Dedup(<<>>, SelectSeq(d.states, LAMBDA st : st \in Range(d.accepts)), 1)
      nonFinals == Dedup(<<>>, SelectSeq(d.states, LAMBDA st : st \notin Range(d.accepts)), 1)
  IN (IF Len(finals) > 0 THEN <<finals>> ELSE <<>>)
       \o (IF Len(nonFinals) > 0 THEN <<nonFinals>> ELSE <<>>)

minimizeDFACombined(dfa0) ==
  LET d == removeUnreachableDFACombined(dfa0)
      P == refineLoop(d, initialPartition(d))
      newStates == [b \in 1..Len(P) |-> blockName(P[b])]
      cn == classNames(<<>>, P, 1)
  IN IF Len(d.states) = 0 THEN [error |-> "DFA has no states."] ELSE
     [states |-> newStates,
      alphabet |-> d.alphabet,
      start |-> cn[d.start],
      accepts |-> Dedup(<<>>, SelectSeq(newStates, LAMBDA n : splitAccepts(n, d.accepts)), 1),
      transitions |-> blockTrans(d, P, cn, <<>>, 1)]

(***************************************************************************)
(* Bounded inputs: NFAs over q0, q1, q2 and the alphabet a, b, given by at *)
(* most MaxTrans transition rows, epsilon rows included                    *)
(***************************************************************************)
MaxTrans == 3        \* most (from, symbol, destination) rows of an input NFA

NfaStates == {0, 1, 2}
NfaAlphabet == <<"a", "b">>

Rows == NfaStates \X (Range(NfaAlphabet) \cup {EPS}) \X NfaStates

RECURSIVE RowSets(_)
\* the sets of at most n rows
RowSets(n) ==
  IF n = 0 THEN {{}}
  ELSE LET smaller == RowSets(n - 1)
       IN smaller \cup {T \cup {row} : T \in smaller, row \in Rows}

MkNFA(T, accepts) ==
  [states |-> <<0, 1, 2>>,
   alphabet |-> NfaAlphabet,
   start |-> 0,
   accepts |-> accepts,
   transitions |->
     [st \in {row[1] : row \in T} |->
        [sym \in {row[2] : row \in {x \in T : x[1] = st}} |->
           {row[3] : row \in {x \in T : x[1] = st /\ x[2] = sym}}]]]

InitNFA ==
  /\ pc = "nfa"
  /\ TextIdle
  /\ nfa \in {MkNFA(T, acc) : T \in RowSets(MaxTrans), acc \in {<<2>>, <<1, 2>>}}
  /\ g = None /\ FIRST = None /\ FOLLOW = None /\ ll1 = None
  /\ lr = None /\ lf = None
  /\ dfa = None /\ cdfa = None /\ mdfa = None /\ mdfa2 = None

\* the NFA -> DFA -> minimised DFA tool, step by step
RunSubset ==
  /\ pc = "nfa"
  /\ dfa' = nfaToDfaCombined(nfa)
  /\ pc' = "dfa"
  /\ UNCHANGED <<textVars, g, FIRST, FOLLOW, ll1, lr, lf, nfa, cdfa, mdfa, mdfa2>>

RunComplete ==
  /\ pc = "dfa"
  /\ cdfa' = completeDFACombined(dfa)
  /\ pc' = "cdfa"
  /\ UNCHANGED <<textVars, g, FIRST, FOLLOW, ll1, lr, lf, nfa, dfa, mdfa, mdfa2>>

RunMinimize ==
  /\ pc = "cdfa"
  /\ mdfa' = minimizeDFACombined(cdfa)
  /\ pc' = "mdfa"
  /\ UNCHANGED <<textVars, g, FIRST, FOLLOW, ll1, lr, lf, nfa, dfa, cdfa, mdfa2>>

\* minimising the minimised DFA once more
RunMinimizeAgain ==
  /\ pc = "mdfa"
  /\ mdfa2' = minimizeDFACombined(mdfa)
  /\ pc' = "mdfa2"
  /\ UNCHANGED <<textVars, g, FIRST, FOLLOW, ll1, lr, lf, nfa, dfa, cdfa, mdfa>>

NextNFA == RunSubset \/ RunComplete \/ RunMinimize \/ RunMinimizeAgain

SpecNFA == InitNFA /\ [][NextNFA]_vars

(***************************************************************************)
(* Claims about the automaton tools                                        *)
(***************************************************************************)
\* the words over the alphabet of at most MaxWord symbols
Words(alphabet) == UNION {[1..k -> Range(alphabet)] : k \in 0..MaxWord}

RECURSIVE RefEpsReach(_, _, _)
\* the states reached from S by at most n epsilon moves
RefEpsReach(n0, S, n) ==
  IF n = 0 THEN S
  ELSE RefEpsReach(n0, S \cup {t \in Range(n0.states) :
                                 \E q \in S : t \in nfaDelta(n0.transitions, q, EPS)}, n - 1)

RECURSIVE RefNfaAfter(_, _, _)
\* the states the NFA can be in after reading w[1..k]
RefNfaAfter(n0, w, k) ==
  IF k = 0 THEN RefEpsReach(n0, {n0.start}, Len(n0.states))
  ELSE LET before == RefNfaAfter(n0, w, k - 1)
           stepped == {t \in Range(n0.states) :
                         \E q \in before : t \in nfaDelta(n0.transitions, q, w[k])}
       IN RefEpsReach(n0, stepped, Len(n0.states))

RefNfaAccepts(n0, w) == RefNfaAfter(n0, w, Len(w)) \cap Range(n0.accepts) # {}

RECURSIVE DfaRun(_, _, _, _)
\* the state reached from st on w[k..], NoState once a transition is missing
DfaRun(d, st, w, k) ==
  IF st = NoState \/ k > Len(w) THEN st
  ELSE DfaRun(d, dfaDelta(d.transitions, st, w[k]), w, k + 1)

DfaAccepts(d, w) == DfaRun(d, d.start, w, 1) \in Range(d.accepts)

\* C9: the DFA of nfaToDfaCombined accepts a word (of at most MaxWord
\* symbols, a missing transition rejecting) iff the NFA accepts it.
C9_SubsetEquivalent ==
  pc = "dfa" =>
    \A w \in Words(nfa.alphabet) : DfaAccepts(dfa, w) <=> RefNfaAccepts(nfa, w)

\* the NFA has an epsilon move and a nondeterministic fan-out, the DFA a
\* state of two NFA states, and some word of two symbols is accepted
C9_Witness ==
  /\ pc = "dfa"
  /\ \E q \in NfaStates : nfaDelta(nfa.transitions, q, EPS) # {}
  /\ \E q \in NfaStates : \E a \in Range(nfa.alphabet) :
        Cardinality(nfaDelta(nfa.transitions, q, a)) >= 2
  /\ \E st \in Range(dfa.states) : Len(st) >= 2
  /\ \E w \in Words(nfa.alphabet) : Len(w) = 2 /\ DfaAccepts(dfa, w)

\* d1 and d2 are the same automaton up to a renaming of the states
Isomorphic(d1, d2) ==
  /\ Len(d1.states) = Len(d2.states)
  /\ \E f \in [Range(d1.states) -> Range(d2.states)] :
       /\ \A x, y \in Range(d1.states) : f[x] = f[y] => x = y
       /\ f[d1.start] = d2.start
       /\ \A x \in Range(d1.states) :
            /\ (x \in Range(d1.accepts)) <=> (f[x] \in Range(d2.accepts))
            /\ \A a \in Range(d1.alphabet) :
                 IF dfaDelta(d1.transitions, x, a) = NoState
                 THEN dfaDelta(d2.transitions, f[x], a) = NoState
                 ELSE dfaDelta(d2.transitions, f[x], a) = f[dfaDelta(d1.transitions, x, a)]

\* C10: minimising a minimised DFA again gives a DFA with the same number of
\* states that is isomorphic to it.
C10_MinimizeIdempotent ==
  pc = "mdfa2" => (Len(mdfa2.states) = Len(mdfa.states) /\ Isomorphic(mdfa, mdfa2))

(***************************************************************************)
(* parseNFACombined.  The text is a sequence of lines, each given by what  *)
(* the line tests and the split/trim/filter chains of the parser see in    *)
(* it: the kind of header the line matches (or "row" for any other line)   *)
(* and the names it lists.  State names are the integer codes of the       *)
(* automaton model.                                                        *)
(***************************************************************************)
NoStart == -1        \* let start = null (also the empty string of "Start:")

\* transitions[from][sym].add(d) for every d of dests, creating the levels
addDests(transitions, from, sym, dests) ==
  LET oldRow == IF from \in DOMAIN transitions THEN transitions[from] ELSE <<>>
      oldSet == IF sym \in DOMAIN oldRow THEN oldRow[sym] ELSE {}
      row == [x \in DOMAIN oldRow \cup {sym} |->
                IF x = sym THEN oldSet \cup Range(dests) ELSE oldRow[x]]
  IN [x \in DOMAIN transitions \cup {from} |-> IF x = from THEN row ELSE transitions[x]]

\* the body of "for (const line of lines)"; p is the parser's local state
parseNfaLine(p, line) ==
  IF line.kind = "states"
  THEN [p EXCEPT !.statesList = line.names, !.stateSet = AddAll(@, line.names, 1)]
  ELSE IF line.kind = "alphabet"
  THEN [p EXCEPT !.alphaSet =
          AddAll(@, SelectSeq(line.syms, LAMBDA x : x # "epsilon" /\ x # EPS), 1)]
  ELSE IF line.kind = "start"
  THEN [p EXCEPT !.start = line.name,
                 !.stateSet = IF line.name # NoStart THEN SetAdd(@, line.name) ELSE @]
  ELSE IF line.kind = "accept"
  THEN [p EXCEPT !.acceptSet = AddAll(@, line.names, 1),
                 !.stateSet = AddAll(@, line.names, 1)]
  ELSE IF line.kind = "transitions"
  THEN [p EXCEPT !.inTrans = TRUE]
  ELSE IF ~p.inTrans \/ Len(line.dests) = 0 THEN p
  ELSE LET sym == IF line.sym = "epsilon" \/ line.sym = EPS THEN EPS ELSE line.sym
       IN [p EXCEPT !.alphaSet = IF sym = EPS THEN @ ELSE SetAdd(@, sym),
                    !.stateSet = AddAll(SetAdd(@, line.from), line.dests, 1),
                    !.transitions = addDests(@, line.from, sym, line.dests)]

RECURSIVE parseNfaLines(_, _, _)
parseNfaLines(p, lines, k) ==
  IF k > Len(lines) THEN p ELSE parseNfaLines(parseNfaLine(p, lines[k]), lines, k + 1)

parseNFACombined(lines) ==
  LET p == parseNfaLines([stateSet |-> <<>>, acceptSet |-> <<>>, alphaSet |-> <<>>,
                          transitions |-> <<>>, statesList |-> <<>>,
                          start |-> NoStart, inTrans |-> FALSE], lines, 1)
      statesList == IF Len(p.statesList) = 0 /\ Len(p.stateSet) > 0
                    THEN p.stateSet ELSE p.statesList
  IN IF Len(statesList) = 0
     THEN [error |-> "No states found."]
     ELSE [states |-> statesList,
           alphabet |-> p.alphaSet,
           start |-> IF p.start = NoStart THEN statesList[1] ELSE p.start,
           accepts |-> p.acceptSet,
           transitions |-> p.transitions]

\* the lines of an NFA description
StatesLine(names) == [kind |-> "states", names |-> names]
AlphabetLine(syms) == [kind |-> "alphabet", syms |-> syms]
StartLine(name) == [kind |-> "start", name |-> name]
AcceptLine(names) == [kind |-> "accept", names |-> names]
TransitionsLine == [kind |-> "transitions"]
RowLine(from, sym, dests) == [kind |-> "row", from |-> from, sym |-> sym, dests |-> dests]

\* the text the example button loads
ExampleNfaText ==
  <<StatesLine(<<0, 1, 2>>), AlphabetLine(<<"a", "b">>), StartLine(0), AcceptLine(<<2>>),
    TransitionsLine, RowLine(0, "a", <<0>>), RowLine(0, "b", <<1>>), RowLine(1, "b", <<2>>)>>

ExampleNFA == parseNFACombined(ExampleNfaText)

\* C11: for the example NFA (q0,a->q0; q0,b->q1; q1,b->q2, accept q2) the
\* pipeline parse -> subset construction -> completion -> minimisation gives a
\* minimised DFA of at most 3 states.
C11_AtMostThree ==
  (pc = "mdfa" /\ nfa = ExampleNFA) => Len(mdfa.states) <= 3

\* C11 as amended: the minimised DFA of the example has exactly 4 states, q0,
\* q1, q2 and the dead state added by completion, q2 alone accepting.
C11_FourStates ==
  (pc = "mdfa" /\ nfa = ExampleNFA) =>
     /\ Range(mdfa.states) = {<<0>>, <<1>>, <<2>>, <<DeadCode>>}
     /\ Len(mdfa.states) = 4
     /\ mdfa.accepts = << <<2>> >>

\* the example went through the whole pipeline and kept its dead state
C11_Witness ==
  /\ pc = "mdfa" /\ nfa = ExampleNFA
  /\ <<DeadCode>> \in Range(mdfa.states)
  /\ mdfa.start = <<0>>

(***************************************************************************)
(* Bounded NFA descriptions: optional States, Start and Accept lines, an   *)
(* optional Transitions header and at most MaxRows rows after it           *)
(***************************************************************************)
MaxRows == 1         \* most transition rows of an NFA description

RowLines ==
  {RowLine(from, sym, dests) :
     from \in NfaStates, sym \in {"a", EPS}, dests \in {<<>>, <<1>>, <<2>>, <<1, 2>>}}

RECURSIVE RowSeqs(_)
\* the sequences of at most n rows
RowSeqs(n) ==
  IF n = 0 THEN {<<>>}
  ELSE LET shorter == RowSeqs(n - 1)
       IN shorter \cup {Append(rs, row) : rs \in shorter, row \in RowLines}

NfaTexts ==
  {states \o start \o accept \o header \o rows :
     states \in {<<>>} \cup {<<StatesLine(ns)>> : ns \in {<<0>>, <<0, 1>>, <<0, 1, 2>>}},
     start \in {<<>>} \cup {<<StartLine(n)>> : n \in NfaStates \cup {NoStart}},
     accept \in {<<>>} \cup {<<AcceptLine(ns)>> : ns \in {<<2>>, <<1, 2>>}},
     header \in {<<>>, <<TransitionsLine>>},
     rows \in RowSeqs(MaxRows)}

InitParseNFA ==
  /\ pc = "nfaText"
  /\ text \in NfaTexts
  /\ parsed = None /\ str = None /\ str2 = None /\ report = None /\ ll1lr = None
  /\ mem = None
  /\ g = None /\ FIRST = None /\ FOLLOW = None /\ ll1 = None
  /\ lr = None /\ lf = None
  /\ nfa = None /\ dfa = None /\ cdfa = None /\ mdfa = None /\ mdfa2 = None

\* const nfa = parseNFACombined(text)
RunParseNFA ==
  /\ pc = "nfaText"
  /\ nfa' = parseNFACombined(text)
  /\ pc' = "nfaParsed"
  /\ UNCHANGED <<textVars, g, FIRST, FOLLOW, ll1, lr, lf, dfa, cdfa, mdfa, mdfa2>>

NextParseNFA == RunParseNFA

SpecParseNFA == InitParseNFA /\ [][NextParseNFA]_vars

\* the states a description names in its Start line, its Accept line or as an
\* endpoint of a row of its Transitions section
Mentioned(lines) ==
  UNION {IF lines[k].kind = "start" THEN {lines[k].name} \ {NoStart}
         ELSE IF lines[k].kind = "accept" THEN Range(lines[k].names)
         ELSE IF /\ lines[k].kind = "row"
                 /\ \E h \in 1..(k - 1) : lines[h].kind = "transitions"
                 /\ Len(lines[k].dests) > 0
              THEN {lines[k].from} \cup Range(lines[k].dests)
         ELSE {} : k \in 1..Len(lines)}

\* C16: every state named in the Start line, in the Accept line or as source
\* or destination of a transition row is in the returned states list, even
\* when a States line is present and omits it.
C16_MentionedAreStates ==
  (pc = "nfaParsed" /\ "states" \in DOMAIN nfa) =>
     Mentioned(text) \subseteq Range(nfa.states)

(***************************************************************************)
(* Claims about the partition of minimizeDFACombined                       *)
(***************************************************************************)
\* P when the while (changed) loop of minimizeDFACombined(dfa0) has ended
finalPartition(dfa0) ==
  LET d == removeUnreachableDFACombined(dfa0)
  IN refineLoop(d, initialPartition(d))

\* C19: a state of the minimised DFA is listed as accepting iff some member
\* of its block is accepting in the input DFA, also when the input comes from
\* nfaToDfaCombined and its state names are comma-joined lists.
C19_BlockAccepting ==
  (pc = "mdfa" /\ "states" \in DOMAIN mdfa) =>
     LET P == finalPartition(cdfa)
     IN \A b \in 1..Len(P) :
          (blockName(P[b]) \in Range(mdfa.accepts))
            <=> (\E st \in Range(P[b]) : st \in Range(cdfa.accepts))

RECURSIVE RefEquivFrom(_, _, _)
\* the pairs of states no word of at most n symbols tells apart, from the
\* pairs E that no shorter word tells apart
RefEquivFrom(d, E, n) ==
  IF n = 0 THEN E
  ELSE RefEquivFrom(d,
         {pq \in E : \A a \in Range(d.alphabet) :
            <<dfaDelta(d.transitions, pq[1], a), dfaDelta(d.transitions, pq[2], a)>> \in E},
         n - 1)

\* language equivalence of the states of a complete DFA: a word that tells
\* two states apart can be taken shorter than the number of states
RefEquiv(d) ==
  RefEquivFrom(d,
    {pq \in Range(d.states) \X Range(d.states) :
       (pq[1] \in Range(d.accepts)) <=> (pq[2] \in Range(d.accepts))},
    Len(d.states))

\* C20: the final partition is the coarsest one: two reachable states of the
\* complete DFA are in the same block iff they accept the same language, and
\* a block holds only accepting or only non-accepting states.
C20_CoarsestPartition ==
  (pc = "mdfa" /\ "states" \in DOMAIN mdfa) =>
     LET P == finalPartition(cdfa)
         R == reachableFrom(cdfa, {cdfa.start})
         E == RefEquiv(cdfa)
     IN /\ \A p \in R, q \in R :
             (blockIndex(p, P) = blockIndex(q, P)) <=> (<<p, q>> \in E)
        /\ \A b \in 1..Len(P) : \A p \in Range(P[b]), q \in Range(P[b]) :
             (p \in Range(cdfa.accepts)) <=> (q \in Range(cdfa.accepts))
        /\ Len(mdfa.states) = Len(P)

\* the refinement split a block beyond accepting / non-accepting and still
\* merged two states into one block
C20_Witness ==
  /\ pc = "mdfa" /\ "states" \in DOMAIN mdfa
  /\ Len(finalPartition(cdfa)) >= 3
  /\ \E b \in 1..Len(finalPartition(cdfa)) : Len(finalPartition(cdfa)[b]) >= 2

(***************************************************************************)
(* validateGrammar                                                         *)
(***************************************************************************)
RECURSIVE Symbols(_, _)
\* the symbols of the alternatives rhss, in the order the nested loops meet them
Symbols(rhss, r) ==
  IF r > Len(rhss) THEN <<>> ELSE rhss[r] \o Symbols(rhss, r + 1)

RECURSIVE AllSymbols(_, _)
\* the same over Object.entries(prods)
AllSymbols(prods, a) ==
  IF a > Len(prods.keys) THEN <<>>
  ELSE Symbols(prods.val[prods.keys[a]], 1) \o AllSymbols(prods, a + 1)

\* identifySymbols(prods).terminals
terminalsOf(prods) ==
  AddAll(<<>>, SelectSeq(AllSymbols(prods, 1),
                         LAMBDA t : t # EPS /\ t # "epsilon" /\ ~MapHas(prods, t)), 1)

\* used: the defined nonterminals that appear in a right-hand side
usedOf(prods) ==
  AddAll(<<>>, SelectSeq(AllSymbols(prods, 1), LAMBDA t : MapHas(prods, t)), 1)

RECURSIVE reachScanDirect(_, _, _, _)
\* A variant of reachScan that marks the symbols of A reachable but does not
\* push them, so that their own right-hand sides are never visited.
reachScanDirect(prods, w, syms, k) ==
  IF k > Len(syms) THEN w
  ELSE IF MapHas(prods, syms[k]) /\ syms[k] \notin Range(w.reachable)
       THEN reachScanDirect(prods, [reachable |-> Append(w.reachable, syms[k]),
                                    stack |-> w.stack], syms, k + 1)
       ELSE reachScanDirect(prods, w, syms, k + 1)

RECURSIVE reachScan(_, _, _, _)
\* for (const rhs of rhss) for (const t of rhs): mark and push the new ones;
\* w = [reachable, stack], syms the symbols of the popped nonterminal
reachScan(prods, w, syms, k) ==
  IF k > Len(syms) THEN w
  ELSE IF MapHas(prods, syms[k]) /\ syms[k] \notin Range(w.reachable)
       THEN reachScan(prods, [reachable |-> Append(w.reachable, syms[k]),
                              stack |-> Append(w.stack, syms[k])], syms, k + 1)
       ELSE reachScan(prods, w, syms, k + 1)

RECURSIVE reachLoop(_, _)
\* while (stack.length) { const A = stack.pop(); ... }
reachLoop(prods, w) ==
  IF Len(w.stack) = 0 THEN w.reachable
  ELSE LET A == w.stack[Len(w.stack)]
           w1 == [reachable |-> w.reachable, stack |-> SubSeq(w.stack, 1, Len(w.stack) - 1)]
       IN reachLoop(prods, reachScan(prods, w1, Symbols(prods.val[A], 1), 1))

\* reachable: empty when there is no start symbol
reachableOf(prods) ==
  IF Len(prods.keys) = 0 THEN <<>>
  ELSE reachLoop(prods, [reachable |-> <<startOf(prods)>>, stack |-> <<startOf(prods)>>])

\* the test made on one alternative in the productive loop
rhsProductive(prods, productive, rhs) ==
  \/ (Len(rhs) = 1 /\ (rhs[1] = EPS \/ rhs[1] = "epsilon"))
  \/ \A k \in 1..Len(rhs) :
        \/ rhs[k] = EPS \/ rhs[k] = "epsilon"
        \/ ~MapHas(prods, rhs[k])
        \/ rhs[k] \in Range(productive)

RECURSIVE productivePass(_, _, _)
\* one pass of while (changed) over Object.entries(prods)
productivePass(prods, productive, a) ==
  IF a > Len(prods.keys) THEN productive
  ELSE LET A == prods.keys[a] IN
    IF A \notin Range(productive)
       /\ \E r \in 1..Len(prods.val[A]) : rhsProductive(prods, productive, prods.val[A][r])
    THEN productivePass(prods, Append(productive, A), a + 1)
    ELSE productivePass(prods, productive, a + 1)

\* A variant of productiveLoop that makes one pass only, whatever it changed.
productiveLoopOnePass(prods, productive) == productivePass(prods, productive, 1)

RECURSIVE productiveLoop(_, _)
productiveLoop(prods, productive) ==
  LET next == productivePass(prods, productive, 1)
  IN IF next = productive THEN productive ELSE productiveLoop(prods, next)

validateGrammar(prods) ==
  LET nonterms == prods.keys
      used == usedOf(prods)
      reachable == reachableOf(prods)
      productive == productiveLoop(prods, <<>>)
  IN [start |-> IF Len(nonterms) = 0 THEN None ELSE startOf(prods),
      nonterminals |-> nonterms,
      terminals |-> terminalsOf(prods),
      undefinedNT |-> SelectSeq(used, LAMBDA x : ~MapHas(prods, x)),
      unreachable |-> SelectSeq(nonterms, LAMBDA A : A \notin Range(reachable)),
      neverUsed |-> SelectSeq(nonterms, LAMBDA A : A \notin Range(used) /\ A # startOf(prods)),
      productive |-> productive,
      nonProductive |-> SelectSeq(nonterms, LAMBDA A : A \notin Range(productive))]

\* S -> sigma ; A -> alpha ; B -> beta | b ; C -> gamma  over S, A, B, C and a
GrammarsV ==
  LET syms == {"S", "A", "B", "C", "a"}
      nts == {"S", "A", "B", "C"}
  IN {[keys |-> <<"S", "A", "B", "C">>,
       val |-> [x \in nts |-> IF x = "S" THEN <<s1>>
                              ELSE IF x = "A" THEN <<a1>>
                              ELSE IF x = "B" THEN <<b1, <<"b">> >>
                              ELSE <<c1>>]] :
        s1 \in AltsUpTo(MaxLen, syms), a1 \in AltsUpTo(1, syms),
        b1 \in AltsUpTo(1, syms), c1 \in AltsUpTo(1, syms)}

InitValidate ==
  /\ pc = "parsed"
  /\ g \in GrammarsV
  /\ text = None /\ parsed = None /\ str = None /\ str2 = None
  /\ report = None /\ ll1lr = None /\ mem = None
  /\ FIRST = None /\ FOLLOW = None /\ ll1 = None
  /\ lr = None /\ lf = None
  /\ nfa = None /\ dfa = None /\ cdfa = None /\ mdfa = None /\ mdfa2 = None

\* const rep = validateGrammar(prods)
RunValidate ==
  /\ pc = "parsed"
  /\ report' = validateGrammar(g)
  /\ pc' = "validated"
  /\ UNCHANGED <<text, parsed, str, str2, ll1lr, mem, g, FIRST, FOLLOW, ll1, lr, lf,
                 nfa, dfa, cdfa, mdfa, mdfa2>>

NextValidate == RunValidate

SpecValidate == InitValidate /\ [][NextValidate]_vars

\* B occurs in some right-hand side of A
OccursIn(prods, A, B) ==
  \E r \in 1..Len(prods.val[A]) : B \in Range(prods.val[A][r])

\* there is a chain start = N0, ..., Nk = X of at most n steps in which each
\* N(i+1) occurs in a right-hand side of N(i)
RECURSIVE ChainWithin(_, _, _)
ChainWithin(prods, X, n) ==
  \/ X = startOf(prods)
  \/ /\ n > 0
     /\ \E Y \in NontermSet(prods) :
          OccursIn(prods, Y, X) /\ ChainWithin(prods, Y, n - 1)

\* C15: a defined nonterminal is reported unreachable iff no chain of
\* occurrences in right-hand sides leads from the start symbol to it; the
\* start symbol is never reported.
C15_Unreachable ==
  pc = "validated" =>
     /\ \A X \in NontermSet(g) :
          (X \in Range(report.unreachable))
            <=> ~ChainWithin(g, X, Cardinality(NontermSet(g)))
     /\ startOf(g) \notin Range(report.unreachable)

\* one nonterminal is reached only through another one, and one is unreachable
C15_Witness ==
  /\ pc = "validated"
  /\ report.unreachable # <<>>
  /\ \E X \in NontermSet(g) :
       /\ X \notin Range(report.unreachable)
       /\ X # startOf(g)
       /\ ~OccursIn(g, startOf(g), X)

(***************************************************************************)
(* tokenizeRHS, parseGrammar, stringifyGrammar.  A JavaScript string is    *)
(* the sequence of its characters, each a one-character string; a token    *)
(* and a left-hand side are such sequences too.  The character classes of  *)
(* TOKEN_RE are given for the characters the bounded texts are made of.    *)
(***************************************************************************)
UpperChars == {"A", "B", "C", "E", "F", "S", "T"}                 \* [A-Z]
LowerChars == {"a", "b", "d", "e", "g", "i", "l", "n", "o", "p", "s"}   \* [a-z0-9]
OpChars == {"(", ")", "{", "}", "[", "]", "+", "*", "/", "\\", "^", "=", ",", ".", ":", ";",
            "<", ">", "|", "$", "!", "-"}
TwoCharOps == {<<"=", "=">>, <<"!", "=">>, <<"<", "=">>, <<">", "=">>, <<"|", "|">>,
               <<"&", "&">>}
SpaceChars == {" ", "\t"}                                              \* \s
EpsilonWord == <<"e", "p", "s", "i", "l", "o", "n">>
EpsTok == <<EPS>>

\* String.prototype.toLowerCase, on the characters above
toLowerCase(cs) ==
  [k \in 1..Len(cs) |->
     CASE cs[k] = "A" -> "a" [] cs[k] = "B" -> "b" [] cs[k] = "C" -> "c"
       [] cs[k] = "E" -> "e" [] cs[k] = "F" -> "f" [] cs[k] = "S" -> "s"
       [] cs[k] = "T" -> "t" [] OTHER -> cs[k]]

RECURSIVE trimStart(_)
trimStart(cs) ==
  IF Len(cs) > 0 /\ (cs[1] \in SpaceChars \/ cs[1] = "\n") THEN trimStart(Tail(cs)) ELSE cs

RECURSIVE trimEnd(_)
trimEnd(cs) ==
  IF Len(cs) > 0 /\ (cs[Len(cs)] \in SpaceChars \/ cs[Len(cs)] = "\n")
  THEN trimEnd(SubSeq(cs, 1, Len(cs) - 1)) ELSE cs

\* String.prototype.trim
trim(cs) == trimEnd(trimStart(cs))

RECURSIVE splitAt(_, _, _, _)
\* cs.split(sep) for a one-character separator set: the pieces between the
\* separators, empty pieces included; cur is the piece being read
splitAt(cs, seps, cur, k) ==
  IF k > Len(cs) THEN <<cur>>
  ELSE IF cs[k] \in seps THEN <<cur>> \o splitAt(cs, seps, <<>>, k + 1)
  ELSE splitAt(cs, seps, Append(cur, cs[k]), k + 1)

\* alt.split(/\s+/) on a trimmed string: runs of white space separate
splitSpaces(cs) ==
  SelectSeq(splitAt(cs, SpaceChars \cup {"\n"}, <<>>, 1), LAMBDA piece : piece # <<>>)

\* cs starts with the characters of word at (1-based) position i
startsWithAt(cs, word, i) ==
  /\ i + Len(word) - 1 <= Len(cs)
  /\ \A k \in 1..Len(word) : cs[i + k - 1] = word[k]

RECURSIVE alnumRun(_, _)
\* the length of the longest run of [a-zA-Z0-9] from position j
alnumRun(cs, j) ==
  IF j <= Len(cs) /\ cs[j] \in UpperChars \cup LowerChars THEN 1 + alnumRun(cs, j + 1) ELSE 0

RECURSIVE suffixLen(_, _)
\* the length matched by (?:_[a-zA-Z0-9]+|')* from position j
suffixLen(cs, j) ==
  IF j > Len(cs) THEN 0
  ELSE IF cs[j] = "_" /\ alnumRun(cs, j + 1) > 0
       THEN 1 + alnumRun(cs, j + 1) + suffixLen(cs, j + 1 + alnumRun(cs, j + 1))
  ELSE IF cs[j] = "'" THEN 1 + suffixLen(cs, j + 1)
  ELSE 0

\* the length of the match of TOKEN_RE that begins at position i, 0 if none;
\* the alternatives are tried in the order the expression lists them
matchAt(cs, i) ==
  IF cs[i] = EPS THEN 1
  ELSE IF startsWithAt(cs, EpsilonWord, i) THEN 7
  ELSE IF startsWithAt(cs, <<"i", "d">>, i) THEN 2
  ELSE IF cs[i] \in UpperChars THEN 1 + suffixLen(cs, i + 1)
  ELSE IF cs[i] \in LowerChars THEN 1
  ELSE IF \E op \in TwoCharOps : startsWithAt(cs, op, i) THEN 2
  ELSE IF cs[i] \in OpChars THEN 1
  ELSE 0

RECURSIVE regexTokens(_, _)
\* while ((m = TOKEN_RE.exec(alt)) !== null) tokens.push(m[0])
regexTokens(cs, i) ==
  IF i > Len(cs) THEN <<>>
  ELSE IF matchAt(cs, i) = 0 THEN regexTokens(cs, i + 1)
  ELSE <<SubSeq(cs, i, i + matchAt(cs, i) - 1)>> \o regexTokens(cs, i + matchAt(cs, i))

tokenizeRHS(alt0) ==
  LET alt == trim(alt0)
  IN IF alt = <<>> THEN <<EpsTok>>
     ELSE IF alt = EpsTok \/ toLowerCase(alt) = EpsilonWord THEN <<EpsTok>>
     ELSE IF " " \in Range(alt) THEN splitSpaces(alt)
     ELSE IF regexTokens(alt, 1) # <<>> THEN regexTokens(alt, 1) ELSE <<EpsTok>>

RECURSIVE indexOf(_, _, _)
\* line.indexOf(word), as a 1-based position from i on; 0 when absent
indexOf(cs, word, i) ==
  IF i > Len(cs) THEN 0
  ELSE IF startsWithAt(cs, word, i) THEN i
  ELSE indexOf(cs, word, i + 1)

\* let idx = line.indexOf('->'); if (idx === -1) idx = line.indexOf('→')
arrowIndex(line) ==
  IF indexOf(line, <<"-", ">">>, 1) # 0 THEN indexOf(line, <<"-", ">">>, 1)
  ELSE indexOf(line, <<"→">>, 1)

RECURSIVE pushAlts(_, _, _)
\* for (const alt of alts) prods[lhs].push(tokenizeRHS(alt))
pushAlts(rhss, alts, k) ==
  IF k > Len(alts) THEN rhss
  ELSE pushAlts(Append(rhss, tokenizeRHS(alts[k])), alts, k + 1)

\* the body of "for (const line of lines)": slice(0, idx) and slice(idx + 2)
parseLine(prods, line) ==
  LET p == arrowIndex(line)
      lhs == trim(SubSeq(line, 1, p - 1))
      rhs == trim(SubSeq(line, p + 2, Len(line)))
      alts == splitAt(rhs, {"|"}, <<>>, 1)
      old == IF MapHas(prods, lhs) THEN prods.val[lhs] ELSE <<>>
  IN IF p = 0 THEN prods ELSE MapPut(prods, lhs, pushAlts(old, alts, 1))

RECURSIVE parseLines(_, _, _)
parseLines(prods, lines, k) ==
  IF k > Len(lines) THEN prods ELSE parseLines(parseLine(prods, lines[k]), lines, k + 1)

parseGrammar(cs) ==
  LET raw == splitAt(cs, {"\n"}, <<>>, 1)
      lines == SelectSeq([k \in 1..Len(raw) |-> trim(raw[k])], LAMBDA l : l # <<>>)
  IN parseLines(EmptyMap, lines, 1)

RECURSIVE join(_, _)
\* arr.join(sep) on an array of strings
join(arr, sep) ==
  IF Len(arr) = 0 THEN <<>>
  ELSE IF Len(arr) = 1 THEN arr[1]
  ELSE arr[1] \o sep \o join(Tail(arr), sep)

stringifyGrammar(prods) ==
  join([a \in 1..Len(prods.keys) |->
          prods.keys[a] \o <<" ", "-", ">", " ">>
            \o join([r \in 1..Len(prods.val[prods.keys[a]]) |->
                       join(prods.val[prods.keys[a]][r], <<" ">>)],
                    <<" ", "|", " ">>)],
       <<"\n">>)

RECURSIVE Str(_)
\* the string of a character sequence
Str(cs) == IF Len(cs) = 0 THEN "" ELSE Head(cs) \o Str(Tail(cs))

\* the grammar parseGrammar returns, its symbols as strings
symbolGrammar(prods) ==
  [keys |-> [a \in 1..Len(prods.keys) |-> Str(prods.keys[a])],
   val |-> [A \in {Str(k) : k \in Range(prods.keys)} |->
              LET key == CHOOSE k \in Range(prods.keys) : Str(k) = A
              IN [r \in 1..Len(prods.val[key]) |->
                    [t \in 1..Len(prods.val[key][r]) |-> Str(prods.val[key][r][t])]]]]

\* a line of words separated by single spaces; a text of lines
Line(words) == join(words, <<" ">>)
TextOf(lines) == join(lines, <<"\n">>)
Arrow == <<"-", ">">>
Bar == <<"|">>

\* "E -> T E'\nE' -> + T E' | ε\nT -> F T'\nT' -> * F T' | ε\nF -> ( E ) | id"
ExprText ==
  TextOf(<<Line(<< <<"E">>, Arrow, <<"T">>, <<"E", "'">> >>),
           Line(<< <<"E", "'">>, Arrow, <<"+">>, <<"T">>, <<"E", "'">>, Bar, EpsTok >>),
           Line(<< <<"T">>, Arrow, <<"F">>, <<"T", "'">> >>),
           Line(<< <<"T", "'">>, Arrow, <<"*">>, <<"F">>, <<"T", "'">>, Bar, EpsTok >>),
           Line(<< <<"F">>, Arrow, <<"(">>, <<"E">>, <<")">>, Bar, <<"i", "d">> >>)>>)

\* "S -> A\nA -> a B | A d\nB -> b\nC -> g"
LeftRecText ==
  TextOf(<<Line(<< <<"S">>, Arrow, <<"A">> >>),
           Line(<< <<"A">>, Arrow, <<"a">>, <<"B">>, Bar, <<"A">>, <<"d">> >>),
           Line(<< <<"B">>, Arrow, <<"b">> >>),
           Line(<< <<"C">>, Arrow, <<"g">> >>)>>)

(***************************************************************************)
(* Bounded texts: the line "A", an arrow, an optional space and at most    *)
(* MaxChunks chunks, optionally followed by the line "A -> b"; and the two *)
(* texts above                                                             *)
(***************************************************************************)
MaxChunks == 2       \* most chunks of the right-hand side of a bounded text

Chunks == {<<"a">>, <<"B">>, <<"i", "d">>, EpsilonWord, EpsTok, <<" ">>, <<"|">>, <<"#">>, <<"'">>}

RECURSIVE Bodies(_)
Bodies(n) ==
  IF n = 0 THEN {<<>>}
  ELSE LET shorter == Bodies(n - 1)
       IN shorter \cup {b \o c : b \in shorter, c \in Chunks}

Texts ==
  {<<"A", " ">> \o arrow \o gap \o body \o tail :
     arrow \in {Arrow, <<"→">>},
     gap \in {<<>>, <<" ">>},
     body \in Bodies(MaxChunks),
     tail \in {<<>>, <<"\n">> \o Line(<< <<"A">>, Arrow, <<"b">> >>)}}
  \cup {ExprText, LeftRecText}

InitText ==
  /\ pc = "text"
  /\ text \in Texts
  /\ parsed = None /\ str = None /\ str2 = None /\ report = None /\ ll1lr = None
  /\ mem = None
  /\ g = None /\ FIRST = None /\ FOLLOW = None /\ ll1 = None
  /\ lr = None /\ lf = None
  /\ nfa = None /\ dfa = None /\ cdfa = None /\ mdfa = None /\ mdfa2 = None

\* const prods = parseGrammar(el.value);
\* if (Object.keys(prods).length === 0) return toast("Invalid Grammar")
RunParse ==
  /\ pc = "text"
  /\ parsed' = parseGrammar(text)
  /\ g' = symbolGrammar(parseGrammar(text))
  /\ pc' = IF Len(parseGrammar(text).keys) = 0 THEN "invalid" ELSE "parsed"
  /\ UNCHANGED <<text, str, str2, report, ll1lr, mem, FIRST, FOLLOW, ll1, lr, lf,
                 nfa, dfa, cdfa, mdfa, mdfa2>>

\* stringifyGrammar of the parsed grammar
RunStringify ==
  /\ pc = "parsed"
  /\ parsed # None
  /\ str' = stringifyGrammar(parsed)
  /\ pc' = "str"
  /\ UNCHANGED <<text, parsed, str2, report, ll1lr, mem, g, FIRST, FOLLOW, ll1, lr, lf,
                 nfa, dfa, cdfa, mdfa, mdfa2>>

\* stringifyGrammar(parseGrammar(str))
RunRoundTrip ==
  /\ pc = "str"
  /\ str2' = stringifyGrammar(parseGrammar(str))
  /\ pc' = "str2"
  /\ UNCHANGED <<text, parsed, str, report, ll1lr, mem, g, FIRST, FOLLOW, ll1, lr, lf,
                 nfa, dfa, cdfa, mdfa, mdfa2>>

\* the predictive tables of the grammar and of what eliminateLeftRecursion
\* returned for it
RunTables ==
  /\ pc = "lrDone"
  /\ ll1' = buildPredictiveTable(g, computeFirst(g),
                                 computeFollow(g, computeFirst(g), startOf(g)))
  /\ ll1lr' = buildPredictiveTable(lr.prods, computeFirst(lr.prods),
                 computeFollow(lr.prods, computeFirst(lr.prods), startOf(lr.prods)))
  /\ pc' = "lrTables"
  /\ UNCHANGED <<text, parsed, str, str2, report, mem, g, FIRST, FOLLOW, lr, lf,
                 nfa, dfa, cdfa, mdfa, mdfa2>>

NextText ==
  \/ RunParse \/ RunStringify \/ RunRoundTrip
  \/ RunFirst \/ RunFollow \/ RunTable
  \/ LrStart \/ LrStep \/ LrReturn \/ RunTables

SpecText == InitText /\ [][NextText]_vars

(***************************************************************************)
(* Claims about the texts                                                  *)
(***************************************************************************)
\* C12: for the classic expression grammar, parseGrammar followed by
\* computeFirst, computeFollow (start E) and buildPredictiveTable gives an
\* empty conflict list.
C12_ExprNoConflicts ==
  (pc = "ll1" /\ text = ExprText) => ll1.conflicts = <<>>

\* the table of the expression grammar predicts E' -> ε on ')' and on '$'
C12_Witness ==
  /\ pc = "ll1" /\ text = ExprText
  /\ startOf(g) = "E"
  /\ ll1.table["E'"].val[")"] = << <<EPS>> >>
  /\ ll1.table["E'"].val[END] = << <<EPS>> >>
  /\ ll1.table["F"].val["id"] = << <<"id">> >>

\* C13: for S -> A ; A -> a B | A d ; B -> b ; C -> g the predictive table of
\* the grammar as given has at least one conflict, and the table of what
\* eliminateLeftRecursion returns for it has none.
C13_LeftRecConflicts ==
  (pc = "lrTables" /\ text = LeftRecText) =>
     (Len(ll1.conflicts) >= 1 /\ ll1lr.conflicts = <<>>)

\* the left recursion of A was removed through A'
C13_Witness ==
  /\ pc = "lrTables" /\ text = LeftRecText
  /\ lr.prods.val["A"] = << <<"a", "B", "A'">> >>
  /\ lr.prods.val["A'"] = << <<"d", "A'">>, <<EPS>> >>
  /\ \E k \in 1..Len(ll1.conflicts) :
       ll1.conflicts[k].nonterminal = "A" /\ ll1.conflicts[k].terminal = "a"

\* C14: for a grammar G returned by parseGrammar,
\* stringifyGrammar(parseGrammar(stringifyGrammar(G))) = stringifyGrammar(G).
C14_RoundTrip ==
  pc = "str2" => str2 = str

RECURSIVE asciiArrow(_)
\* the text with every arrow glyph written as the ASCII arrow
asciiArrow(cs) ==
  IF Len(cs) = 0 THEN <<>>
  ELSE (IF Head(cs) = "→" THEN Arrow ELSE <<Head(cs)>>) \o asciiArrow(Tail(cs))

\* C18: a production line written with the arrow glyph parses to the same
\* grammar as the line written with the ASCII arrow, whatever white space
\* (none included) stands between the arrow and the right-hand side.
C18_ArrowGlyph ==
  (pc = "parsed" /\ "→" \in Range(text) /\ "\n" \notin Range(text)) =>
     parsed = parseGrammar(asciiArrow(text))

(***************************************************************************)
(* The transformers on a store of arrays                                   *)
(*                                                                         *)
(* m.arrs[a] is the alternative array at address a and m.objs[p] the       *)
(* grammar object at address p, which maps each nonterminal to the list of *)
(* the addresses of its alternatives.  Every array a transformer stores in *)
(* a grammar is either an array it was handed (its address is kept) or an  *)
(* array it creates (a new address).  The arrays it creates and only reads *)
(* (gamma, alpha, [prime], the first prefix) get no address, and the lists *)
(* newR, newAi, newA, newPrime are created in the call and belong to the   *)
(* object they are assigned to.  No statement of either function writes an *)
(* element of an alternative array, so m.arrs only grows.                  *)
(***************************************************************************)
\* the arrays at the addresses of a list
arraysAt(m, refs) == [k \in 1..Len(refs) |-> m.arrs[refs[k]]]

\* the grammar held by the object at address p
valueAt(m, p) ==
  LET o == m.objs[p]
  IN [keys |-> o.keys, val |-> [x \in Range(o.keys) |-> arraysAt(m, o.val[x])]]

\* the addresses of the alternatives of the object at address p
altRefs(m, p) == UNION {Range(m.objs[p].val[x]) : x \in Range(m.objs[p].keys)}

RECURSIVE newArrays(_, _, _, _)
\* push one newly created array per element of list; returns [m, refs]
newArrays(m, refs, list, k) ==
  IF k > Len(list) THEN [m |-> m, refs |-> refs]
  ELSE newArrays([m EXCEPT !.arrs = Append(@, list[k])],
                 Append(refs, Len(m.arrs) + 1), list, k + 1)

RECURSIVE storeLists(_, _, _, _)
\* prods[lhs].push(tokens) of the parser: one array per alternative
storeLists(m, value, prods, k) ==
  IF k > Len(value.keys) THEN [m |-> m, prods |-> prods]
  ELSE LET key == value.keys[k]
           na == newArrays(m, <<>>, value.val[key], 1)
       IN storeLists(na.m, value, MapPut(prods, key, na.refs), k + 1)

\* the store that holds the grammar the parser returned, at address 1
storeGrammar(value) ==
  LET c == storeLists([arrs |-> <<>>, objs |-> <<>>, prods0 |-> 1, prods |-> 0,
                       nonterms |-> <<>>, i |-> 0], value, EmptyMap, 1)
  IN [c.m EXCEPT !.objs = <<c.prods>>]

RECURSIVE copyLists(_, _, _, _)
\* for (const k of Object.keys(prods0)) prods[k] = prods0[k].map(r => r.slice())
copyLists(m, prods0, prods, k) ==
  IF k > Len(prods0.keys) THEN [m |-> m, prods |-> prods]
  ELSE LET key == prods0.keys[k]
           na == newArrays(m, <<>>, arraysAt(m, prods0.val[key]), 1)
       IN copyLists(na.m, prods0, MapPut(prods, key, na.refs), k + 1)

\* A variant of deepCopy that copies nothing: prods is the argument itself.
deepCopyAlias(m, p) == [m |-> m, at |-> p]

\* const prods = {} and the deep copy; returns the store and the address of prods
deepCopy(m, p) ==
  LET c == copyLists(m, m.objs[p], EmptyMap, 1)
  IN [m |-> [c.m EXCEPT !.objs = Append(@, c.prods)], at |-> Len(m.objs) + 1]

RECURSIVE memSubstAlts(_, _, _, _, _, _)
\* for (const rhs of prods[Ai]): newR.push(rhs) keeps the array rhs, a
\* substitution pushes the arrays made by concat
memSubstAlts(m, newR, rhss, Aj, deltas, r) ==
  IF r > Len(rhss) THEN [m |-> m, refs |-> newR]
  ELSE LET rhs == m.arrs[rhss[r]] IN
    IF Len(rhs) > 0 /\ rhs[1] = Aj
    THEN LET na == newArrays(m, newR,
                             substDeltas(<<>>, arraysAt(m, deltas), Tail(rhs), 1), 1)
         IN memSubstAlts(na.m, na.refs, rhss, Aj, deltas, r + 1)
    ELSE memSubstAlts(m, Append(newR, rhss[r]), rhss, Aj, deltas, r + 1)

RECURSIVE memElimIndirect(_, _, _, _, _)
\* Step 1 on the object at address p: prods[Ai] = newR for every j < i
memElimIndirect(m, p, nonterms, i, j) ==
  IF j >= i THEN m
  ELSE LET Ai == nonterms[i + 1]
           Aj == nonterms[j + 1]
           o == m.objs[p]
           s == memSubstAlts(m, <<>>, o.val[Ai], Aj, o.val[Aj], 1)
       IN memElimIndirect([s.m EXCEPT !.objs[p] = MapPut(o, Ai, s.refs)],
                          p, nonterms, i, j + 1)

\* Step 2 on the object at address p: betas keeps the arrays of prods[Ai];
\* newAi and prods[prime] hold arrays made by concat and the array ['ε']
memElimImmediate(m, p, nonterms, Ai) ==
  LET o == m.objs[p]
      rhss == o.val[Ai]
      alphas == splitAlphas(<<>>, arraysAt(m, rhss), Ai, 1)
      betas == SelectSeq(rhss, LAMBDA r : ~(Len(m.arrs[r]) > 0 /\ m.arrs[r][1] = Ai))
  IN IF Len(alphas) > 0
     THEN LET prime == primeName(o, Ai \o "'")
              nb == newArrays(m, <<>>, withPrime(arraysAt(m, betas), prime), 1)
              np == newArrays(nb.m, <<>>, Append(withPrime(alphas, prime), <<EPS>>), 1)
              o1 == MapPut(o, prime, <<>>)
              o2 == MapPut(o1, Ai, nb.refs)
              o3 == MapPut(o2, prime, np.refs)
          IN [np.m EXCEPT !.objs[p] = o3, !.nonterms = Append(nonterms, prime)]
     ELSE m

\* the body of the outer loop of eliminateLeftRecursion for index m.i
memIteration(m) ==
  LET m1 == memElimIndirect(m, m.prods, m.nonterms, m.i, 0)
      m2 == memElimImmediate(m1, m.prods, m.nonterms, m.nonterms[m.i + 1])
  IN [m2 EXCEPT !.i = m.i + 1]

RECURSIVE memGroupByFirst(_, _, _, _)
\* groups[firstSym].push(rhs): the groups hold the arrays of prods[A]
memGroupByFirst(m, groups, rhss, r) ==
  IF r > Len(rhss) THEN groups
  ELSE LET rhs == m.arrs[rhss[r]] IN
    IF Len(rhs) = 0 THEN memGroupByFirst(m, groups, rhss, r + 1)
    ELSE LET cur == IF MapHas(groups, rhs[1]) THEN groups.val[rhs[1]] ELSE <<>>
         IN memGroupByFirst(m, MapPut(groups, rhs[1], Append(cur, rhss[r])), rhss, r + 1)

\* one group of A: newA keeps the arrays of prods[A] that are not in the
\* group (filter and includes compare the arrays themselves) and gets the
\* new array [...prefix, prime]; newPrime holds the arrays made by slice
memFactorGroup(m, p, A, group) ==
  LET vals == arraysAt(m, group)
      prefix == longestPrefix(vals[1], vals, 2)
  IN IF Len(group) > 1 /\ Len(prefix) > 0
     THEN LET o == m.objs[p]
              prime == factName(o, A, A \o "_fact", 1)
              na == newArrays(m, SelectSeq(o.val[A], LAMBDA r : r \notin Range(group)),
                              << prefix \o <<prime>> >>, 1)
              np == newArrays(na.m, <<>>, remainders(vals, Len(prefix)), 1)
          IN [np.m EXCEPT !.objs[p] = MapPut(MapPut(o, A, na.refs), prime, np.refs)]
     ELSE m

RECURSIVE memFactorGroups(_, _, _, _, _)
\* for (const key of Object.keys(groups)) ...
memFactorGroups(m, p, A, groups, k) ==
  IF k > Len(groups.keys) THEN m
  ELSE memFactorGroups(memFactorGroup(m, p, A, groups.val[groups.keys[k]]),
                       p, A, groups, k + 1)

RECURSIVE memFactorNonterms(_, _, _, _)
\* for (const A of originalNonTerms) ...
memFactorNonterms(m, p, originalNonTerms, a) ==
  IF a > Len(originalNonTerms) THEN m
  ELSE LET A == originalNonTerms[a]
           rhss == m.objs[p].val[A]
       IN IF Len(rhss) < 2 THEN memFactorNonterms(m, p, originalNonTerms, a + 1)
          ELSE memFactorNonterms(
                 memFactorGroups(m, p, A, memGroupByFirst(m, EmptyMap, rhss, 1), 1),
                 p, originalNonTerms, a + 1)

\* leftFactor on the object at address m.prods0; m.prods is what it returns
memLeftFactor(m) ==
  LET c == deepCopy(m, m.prods0)
  IN memFactorNonterms([c.m EXCEPT !.prods = c.at], c.at, c.m.objs[c.at].keys, 1)

\* the argument is one of the grammars of the two tools
InitMem ==
  /\ pc = "stored"
  /\ (g \in GrammarsOver(Nonterms \cup Terms) \/ g \in GrammarsLF)
  /\ mem = storeGrammar(g)
  /\ text = None /\ parsed = None /\ str = None /\ str2 = None
  /\ report = None /\ ll1lr = None
  /\ FIRST = None /\ FOLLOW = None /\ ll1 = None
  /\ lr = None /\ lf = None
  /\ nfa = None /\ dfa = None /\ cdfa = None /\ mdfa = None /\ mdfa2 = None

memFrame == <<text, parsed, str, str2, report, ll1lr, g, FIRST, FOLLOW, ll1, lr, lf,
              nfa, dfa, cdfa, mdfa, mdfa2>>

\* eliminateLeftRecursion(prods0): the deep copy, nonterms = Object.keys(prods)
MemLrStart ==
  /\ pc = "stored"
  /\ LET c == deepCopy(mem, mem.prods0)
     IN mem' = [c.m EXCEPT !.prods = c.at, !.nonterms = c.m.objs[c.at].keys, !.i = 0]
  /\ pc' = "memLr"
  /\ UNCHANGED memFrame

\* one iteration of the outer loop
MemLrStep ==
  /\ pc = "memLr"
  /\ mem.i < Len(mem.nonterms)
  /\ Len(mem.nonterms) < MaxNonterms
  /\ mem' = memIteration(mem)
  /\ UNCHANGED <<pc, memFrame>>

\* return prods
MemLrReturn ==
  /\ pc = "memLr"
  /\ ~(mem.i < Len(mem.nonterms))
  /\ pc' = "memLrDone"
  /\ UNCHANGED <<mem, memFrame>>

\* leftFactor(prods0)
MemLeftFactor ==
  /\ pc = "stored"
  /\ mem' = memLeftFactor(mem)
  /\ pc' = "memLfDone"
  /\ UNCHANGED memFrame

NextMem == MemLrStart \/ MemLrStep \/ MemLrReturn \/ MemLeftFactor

SpecMem == InitMem /\ [][NextMem]_vars

\* C17: eliminateLeftRecursion and leftFactor leave their argument as it was
\* (the same nonterminals in the same order, each with the same sequence of
\* alternatives and symbols), what they work on and return is another object
\* than the argument, and no alternative array of it is an alternative array
\* of the argument.
C17_ArgumentUnchanged ==
  pc \in {"memLr", "memLrDone", "memLfDone"} =>
     /\ valueAt(mem, mem.prods0) = g
     /\ mem.prods # mem.prods0
     /\ altRefs(mem, mem.prods) \cap altRefs(mem, mem.prods0) = {}

\* eliminateLeftRecursion returned a grammar that differs from its argument
\* in A and stores the list B had on entry, array by array copied
C17_Witness ==
  /\ pc = "memLrDone"
  /\ valueAt(mem, mem.prods).val["A"] # g.val["A"]
  /\ valueAt(mem, mem.prods).val["B"] = g.val["B"]
  /\ MapHas(mem.objs[mem.prods], "A'")

(***************************************************************************)
(* Claims about FIRST of a sequence                                        *)
(***************************************************************************)
\* the sequence up to and including its first epsilon marker
uptoEps(tokens) ==
  IF EPS \in Range(tokens)
  THEN SubSeq(tokens, 1, CHOOSE k \in 1..Len(tokens) :
                           tokens[k] = EPS /\ \A j \in 1..(k - 1) : tokens[j] # EPS)
  ELSE tokens

\* C22: firstOfString stops at the first epsilon marker: for an alternative of
\* the parsed grammar that begins with ε the result is exactly {ε}, and for
\* every alternative the result is that of the alternative cut after its
\* first ε.
C22_StopsAtEpsilon ==
  (pc = "first" /\ text # None) =>
     \A A \in NontermSet(g) : \A r \in 1..Len(g.val[A]) :
        LET rhs == g.val[A][r] IN
          /\ rhs[1] = EPS => firstOfString(rhs, FIRST, NontermSet(g)) = <<EPS>>
          /\ firstOfString(rhs, FIRST, NontermSet(g))
               = firstOfString(uptoEps(rhs), FIRST, NontermSet(g))

(***************************************************************************)
(* Claims about FOLLOW as a least fixed point                              *)
(***************************************************************************)
\* what the two FOLLOW rules and the seed require of FOLLOW(B), given FO
RefFollowRequired(prods, FO, B) ==
  (IF B = startOf(prods) THEN {END} ELSE {})
  \cup UNION {UNION {UNION {
         IF prods.val[A][r][i] # B THEN {}
         ELSE LET rhs == prods.val[A][r]
                  beta == SubSeq(rhs, i + 1, Len(rhs))
                  fb == IF Len(beta) > 0 THEN FosSet(beta) ELSE {}
              IN (fb \ {EPS}) \cup (IF Len(beta) = 0 \/ EPS \in fb THEN FO[A] ELSE {})
         : i \in 1..Len(prods.val[A][r])} : r \in 1..Len(prods.val[A])}
         : A \in NontermSet(prods)}

RECURSIVE RefFollowFrom(_, _)
\* the least table closed under the seed and the two rules
RefFollowFrom(prods, FO) ==
  LET FO2 == [B \in NontermSet(prods) |-> FO[B] \cup RefFollowRequired(prods, FO, B)]
  IN IF FO2 = FO THEN FO ELSE RefFollowFrom(prods, FO2)

RefFollow(prods) == RefFollowFrom(prods, [B \in NontermSet(prods) |-> {}])

\* C23: the table of computeFollow is closed under the two FOLLOW rules
\* (FIRST of the suffix without ε goes to FOLLOW(B); FOLLOW(A) goes to
\* FOLLOW(B) when the suffix is empty or has ε in its FIRST) and is the least
\* such table: each of its elements is '$' on the start symbol or is required
\* by one of the rules.
C23_FollowLeastFixedPoint ==
  pc \in {"follow", "ll1"} =>
    /\ \A A \in NontermSet(g) : \A r \in 1..Len(g.val[A]) : \A i \in 1..Len(g.val[A][r]) :
         LET rhs == g.val[A][r]
             B == rhs[i]
             beta == SubSeq(rhs, i + 1, Len(rhs))
         IN B \in NontermSet(g) =>
              /\ Len(beta) > 0 => (FosSet(beta) \ {EPS}) \subseteq Range(FOLLOW[B])
              /\ (Len(beta) = 0 \/ EPS \in FosSet(beta)) =>
                    Range(FOLLOW[A]) \subseteq Range(FOLLOW[B])
    /\ \A B \in NontermSet(g) : Range(FOLLOW[B]) = RefFollow(g)[B]

\* B ends an alternative of A and is followed by a in its own alternative:
\* FOLLOW(B) holds '$' through rule 3 and a through rule 2
C23_Witness ==
  /\ pc = "follow"
  /\ \E alt \in AltSet(g, "A") : alt[Len(alt)] = "B"
  /\ \E alt \in AltSet(g, "B") : Len(alt) = 2 /\ alt[1] = "B" /\ alt[2] = "a"
  /\ Range(FOLLOW["B"]) = {END, "a"}
  /\ Range(FOLLOW["A"]) = {END}

(***************************************************************************)
(* The two transformers on grammars that use primed and _fact names        *)
(***************************************************************************)
\* grammars over A, B, a and the names a transformer would introduce for A
InitNames ==
  /\ pc = "parsed"
  /\ TextIdle
  /\ g \in GrammarsOver(Nonterms \cup {"a", "A'", "A_fact"})
  /\ FIRST = None /\ FOLLOW = None /\ ll1 = None
  /\ lr = None /\ lf = None
  /\ nfa = None /\ dfa = None /\ cdfa = None /\ mdfa = None /\ mdfa2 = None

NextNames == LrStart \/ LrStep \/ LrReturn \/ RunLeftFactor

SpecNames == InitNames /\ [][NextNames]_vars

\* the symbols that occur in the alternatives of a grammar
SymbolsOf(prods) ==
  UNION {UNION {Range(prods.val[A][r]) : r \in 1..Len(prods.val[A])} : A \in NontermSet(prods)}

\* C24: a name introduced by eliminateLeftRecursion or leftFactor is unused
\* when it is chosen: it is no key of the grammar and occurs in no
\* alternative of the grammar of that moment.  (For eliminateLeftRecursion
\* that grammar is prods after step 1 of the iteration; for leftFactor the
\* symbols of prods are at every moment those of the argument, the names
\* introduced before and ε.)
C24_FreshNameUnused ==
  [][/\ LrStep =>
          LET p1 == elimIndirect(lr.prods, lr.nonterms, lr.i, 0)
          IN \A k \in NontermSet(lr'.prods) \ NontermSet(lr.prods) :
                k \notin NontermSet(p1) /\ k \notin SymbolsOf(p1)
     /\ RunLeftFactor =>
          \A k \in NontermSet(lf') \ NontermSet(g) :
                k \notin NontermSet(g) /\ k \notin SymbolsOf(g)]_vars

(***************************************************************************)
(* src/js/tools.js: the last definitions of eliminateLeftRecursion and     *)
(* leftFactor (iterate to fixpoint)                                        *)
(***************************************************************************)
RECURSIVE jsSubstDeltas(_, _, _, _)
\* for (const delta of prods[Aj]): comb = delta.concat(rhs.slice(1));
\* push comb, or ['ε'] when comb is empty
jsSubstDeltas(newR, deltas, gamma, k) ==
  IF k > Len(deltas) THEN newR
  ELSE LET comb == deltas[k] \o gamma
       IN jsSubstDeltas(Append(newR, IF Len(comb) > 0 THEN comb ELSE <<EPS>>),
                        deltas, gamma, k + 1)

RECURSIVE jsSubstAlts(_, _, _, _, _)
\* for (const rhs of prods[Ai]) ...
jsSubstAlts(newR, rhss, Aj, deltas, r) ==
  IF r > Len(rhss) THEN newR
  ELSE LET rhs == rhss[r] IN
    IF Len(rhs) > 0 /\ rhs[1] = Aj
    THEN jsSubstAlts(jsSubstDeltas(newR, deltas, Tail(rhs), 1), rhss, Aj, deltas, r + 1)
    ELSE jsSubstAlts(Append(newR, rhs), rhss, Aj, deltas, r + 1)

RECURSIVE jsElimIndirect(_, _, _, _)
\* for (let j = 0; j < i; j++) prods[Ai] = newR
jsElimIndirect(prods, nonterms, i, j) ==
  IF j >= i THEN prods
  ELSE LET Ai == nonterms[i + 1]
           Aj == nonterms[j + 1]
           newR == jsSubstAlts(<<>>, prods.val[Ai], Aj, prods.val[Aj], 1)
       IN jsElimIndirect(MapPut(prods, Ai, newR), nonterms, i, j + 1)

\* eliminate immediate left recursion for Ai; returns [prods, nonterms]
jsElimImmediate(prods, nonterms, Ai) ==
  LET alphas == splitAlphas(<<>>, prods.val[Ai], Ai, 1)
      betas == splitBetas(prods.val[Ai], Ai)
  IN IF Len(alphas) > 0
     THEN LET prime == primeName(prods, Ai \o "'")
              newAi == withPrime(betas, prime)
              p1 == MapPut(prods, prime, <<>>)
              p2 == MapPut(p1, Ai, IF Len(newAi) > 0 THEN newAi ELSE << <<prime>> >>)
              p3 == MapPut(p2, prime, Append(withPrime(alphas, prime), <<EPS>>))
          IN [prods |-> p3, nonterms |-> Append(nonterms, prime)]
     ELSE [prods |-> prods, nonterms |-> nonterms]

\* the body of the outer loop for index i
jsLrIteration(st) ==
  LET p1 == jsElimIndirect(st.prods, st.nonterms, st.i, 0)
      res == jsElimImmediate(p1, st.nonterms, st.nonterms[st.i + 1])
  IN [prods |-> res.prods, nonterms |-> res.nonterms, i |-> st.i + 1]

RECURSIVE jsFactName(_, _)
\* let prime = A + "_fact"; while (prods[prime]) prime += "_"
jsFactName(prods, prime) ==
  IF MapHas(prods, prime) THEN jsFactName(prods, prime \o "_") ELSE prime

RECURSIVE jsGroupByFirst(_, _, _)
\* key = rhs[0] !== undefined ? rhs[0] : 'ε'; (groups[key] = groups[key] || []).push(rhs)
jsGroupByFirst(groups, rhss, r) ==
  IF r > Len(rhss) THEN groups
  ELSE LET rhs == rhss[r]
           key == IF Len(rhs) > 0 THEN rhs[1] ELSE EPS
           cur == IF MapHas(groups, key) THEN groups.val[key] ELSE <<>>
       IN jsGroupByFirst(MapPut(groups, key, Append(cur, rhs)), rhss, r + 1)

\* rhs.length >= prefix.length and rhs[z] === prefix[z] for every z
jsMatches(rhs, prefix) ==
  Len(rhs) >= Len(prefix) /\ SubSeq(rhs, 1, Len(prefix)) = prefix

\* one extraction: the alternatives of A that begin with prefix go to the
\* new nonterminal without it, the others stay, prefix prime is appended
jsExtract(prods, A, prefix) ==
  LET rhss == prods.val[A]
      prime == jsFactName(prods, A \o "_fact")
      factR == remainders(SelectSeq(rhss, LAMBDA rhs : jsMatches(rhs, prefix)), Len(prefix))
      newA == Append(SelectSeq(rhss, LAMBDA rhs : ~jsMatches(rhs, prefix)),
                     prefix \o <<prime>>)
  IN MapPut(MapPut(prods, A, newA), prime, factR)

RECURSIVE jsFactorGroups(_, _, _, _)
\* for (const key of Object.keys(groups)): the first group of two or more
\* with a non-empty common prefix is extracted; returns [prods, factored]
jsFactorGroups(prods, A, groups, k) ==
  IF k > Len(groups.keys) THEN [prods |-> prods, factored |-> FALSE]
  ELSE LET grp == groups.val[groups.keys[k]]
           prefix == longestPrefix(grp[1], grp, 2)
       IN IF Len(grp) <= 1 \/ Len(prefix) = 0
          THEN jsFactorGroups(prods, A, groups, k + 1)
          ELSE [prods |-> jsExtract(prods, A, prefix), factored |-> TRUE]

RECURSIVE jsFactorPass(_, _)
\* one pass of while (changed): for (const A of Object.keys(prods)), left at
\* the first extraction; returns [prods, changed]
jsFactorPass(prods, a) ==
  IF a > Len(prods.keys) THEN [prods |-> prods, changed |-> FALSE]
  ELSE LET A == prods.keys[a]
           rhss == prods.val[A]
       IN IF Len(rhss) < 2 THEN jsFactorPass(prods, a + 1)
          ELSE LET f == jsFactorGroups(prods, A, jsGroupByFirst(EmptyMap, rhss, 1), 1)
               IN IF f.factored THEN [prods |-> f.prods, changed |-> TRUE]
                  ELSE jsFactorPass(prods, a + 1)

jsFrame == <<textVars, g, FIRST, FOLLOW, ll1, nfa, dfa, cdfa, mdfa, mdfa2>>

\* eliminateLeftRecursion(prods0): copy, nonterms = Object.keys(prods), i = 0
JsLrStart ==
  /\ pc = "parsed"
  /\ lr' = [prods |-> g, nonterms |-> g.keys, i |-> 0]
  /\ pc' = "jsLr"
  /\ UNCHANGED <<lf, jsFrame>>

\* one iteration of the outer loop
JsLrStep ==
  /\ pc = "jsLr"
  /\ lrLoopCond(lr)
  /\ Len(lr.nonterms) < MaxNonterms
  /\ lr' = jsLrIteration(lr)
  /\ UNCHANGED <<pc, lf, jsFrame>>

\* return prods
JsLrReturn ==
  /\ pc = "jsLr"
  /\ ~lrLoopCond(lr)
  /\ pc' = "jsLrDone"
  /\ UNCHANGED <<lr, lf, jsFrame>>

\* leftFactor(prods0): copy, changed = true
JsLfStart ==
  /\ pc = "parsed"
  /\ lf' = [prods |-> g, changed |-> TRUE]
  /\ pc' = "jsLf"
  /\ UNCHANGED <<lr, jsFrame>>

\* one pass of while (changed)
JsLfPass ==
  /\ pc = "jsLf"
  /\ lf.changed
  /\ Len(lf.prods.keys) < MaxNonterms
  /\ lf' = jsFactorPass(lf.prods, 1)
  /\ UNCHANGED <<pc, lr, jsFrame>>

\* return prods
JsLfReturn ==
  /\ pc = "jsLf"
  /\ ~lf.changed
  /\ pc' = "jsLfDone"
  /\ UNCHANGED <<lr, lf, jsFrame>>

NextJs == JsLrStart \/ JsLrStep \/ JsLrReturn \/ JsLfStart \/ JsLfPass \/ JsLfReturn

SpecJs == InitLR /\ [][NextJs]_vars

\* C21: the iterate-to-fixpoint leftFactor terminates on every finite grammar
\* with non-empty alternatives, duplicates and ε-alternatives allowed: while
\* the last pass extracted something, the grammar has fewer than MaxNonterms
\* nonterminals, so the next pass is taken, and a pass that extracts nothing
\* is reached.
C21_FixpointTerminates ==
  (pc = "jsLf" /\ lf.changed) => Len(lf.prods.keys) < MaxNonterms

\* the configuration met on  A -> a | a : the last nonterminal has the
\* alternatives ε | ε and every other nonterminal has a single alternative
JsEpsPair ==
  /\ pc = "jsLf" /\ lf.changed
  /\ lf.prods.val[lf.prods.keys[Len(lf.prods.keys)]] = << <<EPS>>, <<EPS>> >>
  /\ \A k \in 1..(Len(lf.prods.keys) - 1) : Len(lf.prods.val[lf.prods.keys[k]]) = 1

\* every pass from that configuration leads to the same configuration with
\* one more nonterminal, so changed never becomes false
JsEpsPairPersists == [][JsEpsPair => JsEpsPair']_vars

\* C25: every alternative of the grammar returned by eliminateLeftRecursion
\* of src/js/tools.js, for an input in which ε occurs only as a sole symbol,
\* is non-empty and holds ε only as its sole symbol.
C25_EpsilonStaysSole ==
  (pc = "jsLrDone" /\ EpsOnlySole(g)) =>
     \A A \in NontermSet(lr.prods) : \A alt \in AltSet(lr.prods, A) :
        Len(alt) > 0 /\ (EPS \in Range(alt) => alt = <<EPS>>)

\* the same for the definition in src/unnamed/part_001
C25_EpsilonStaysSolePart001 ==
  (pc = "lrDone" /\ EpsOnlySole(g)) =>
     \A A \in NontermSet(lr.prods) : \A alt \in AltSet(lr.prods, A) :
        Len(alt) > 0 /\ (EPS \in Range(alt) => alt = <<EPS>>)

(***************************************************************************)
(* Claims about the alternatives eliminateLeftRecursion leaves             *)
(***************************************************************************)
\* C30: when every nonterminal of the input has an alternative, every
\* nonterminal of the grammar eliminateLeftRecursion returns has one too,
\* also a nonterminal whose alternatives all begin with itself.
C30_KeepsAnAlternative ==
  (pc = "lrDone" /\ \A A \in NontermSet(g) : Len(g.val[A]) >= 1) =>
     \A A \in NontermSet(lr.prods) : Len(lr.prods.val[A]) >= 1

(***************************************************************************)
(* Claims about the cells of the predictive table                          *)
(***************************************************************************)
\* C27: no cell of the table holds the same alternative twice, and an
\* alternative that reaches a cell both through FIRST and through FOLLOW, or
\* that A lists twice, is no conflict by itself: every reported conflict has
\* two different alternatives.
C27_NoDuplicateInCell ==
  pc = "ll1" =>
    /\ \A A \in NontermSet(g) : \A k \in 1..Len(ll1.table[A].keys) :
         LET cell == ll1.table[A].val[ll1.table[A].keys[k]]
         IN \A i, j \in 1..Len(cell) : cell[i] = cell[j] => i = j
    /\ \A c \in 1..Len(ll1.conflicts) :
         Cardinality(Range(ll1.conflicts[c].prods)) >= 2

\* an alternative of B has both a and ε in its FIRST, a is in FOLLOW(B), and
\* the cell (B, a) holds the alternative once
C27_Witness ==
  /\ pc = "ll1"
  /\ \E alt \in AltSet(g, "B") :
       /\ "a" \in FosSet(alt) /\ EPS \in FosSet(alt)
       /\ "a" \in Range(FOLLOW["B"])
       /\ ll1.table["B"].val["a"] = <<alt>>
  /\ \A c \in 1..Len(ll1.conflicts) : ll1.conflicts[c].nonterminal # "B"

(***************************************************************************)
(* Claims about the productive nonterminals                                *)
(***************************************************************************)
RECURSIVE DerivesWithin(_, _, _)
\* X derives a string of terminals (possibly empty) by a derivation tree of
\* height at most n + 1: some alternative of X consists of ε markers,
\* terminals and nonterminals that derive one by a tree of height at most n
DerivesWithin(prods, X, n) ==
  \E r \in 1..Len(prods.val[X]) :
     \A k \in 1..Len(prods.val[X][r]) :
        LET s == prods.val[X][r][k]
        IN \/ s = EPS
           \/ s \notin NontermSet(prods)
           \/ (n > 0 /\ DerivesWithin(prods, s, n - 1))

\* C28: a nonterminal is reported productive iff it derives some string of
\* terminals (possibly the empty one), and nonProductive lists exactly the
\* defined nonterminals that are not productive.
C28_ProductiveLeastFixedPoint ==
  pc = "validated" =>
     /\ \A X \in NontermSet(g) :
          (X \in Range(report.productive))
            <=> DerivesWithin(g, X, Cardinality(NontermSet(g)))
     /\ Range(report.productive) \subseteq NontermSet(g)
     /\ Range(report.nonProductive) = NontermSet(g) \ Range(report.productive)

\* the start symbol is productive only through another nonterminal, found
\* in a later pass, and some nonterminal is not productive
C28_Witness ==
  /\ pc = "validated"
  /\ startOf(g) \in Range(report.productive)
  /\ ~DerivesWithin(g, startOf(g), 0)
  /\ report.nonProductive # <<>>

(***************************************************************************)
(* The automaton tool on NFAs whose third state is named like the dead     *)
(* state, '⊥'                                                              *)
(***************************************************************************)
\* the NFA of MkNFA with q2 written '⊥'
MkNFADead(T, accepts) ==
  LET ren(n) == IF n = 2 THEN DeadCode ELSE n
  IN [MkNFA({<<ren(row[1]), row[2], ren(row[3])>> : row \in T},
            [k \in 1..Len(accepts) |-> ren(accepts[k])])
        EXCEPT !.states = <<0, 1, DeadCode>>]

InitNFADead ==
  /\ pc = "nfa"
  /\ TextIdle
  /\ nfa \in {MkNFADead(T, acc) : T \in RowSets(MaxTrans), acc \in {<<2>>, <<1, 2>>}}
  /\ g = None /\ FIRST = None /\ FOLLOW = None /\ ll1 = None
  /\ lr = None /\ lf = None
  /\ dfa = None /\ cdfa = None /\ mdfa = None /\ mdfa2 = None

SpecNFADead == InitNFADead /\ [][NextNFA]_vars

\* some state of the DFA has no transition on some symbol of the alphabet
LacksTransition(d) ==
  \E st \in Range(d.states) : \E a \in Range(d.alphabet) :
     ~(st \in DOMAIN d.transitions /\ a \in DOMAIN d.transitions[st])

\* C29: the DFA returned by completeDFACombined is total (every state has a
\* transition on every alphabet symbol, to a state of the DFA); the
\* transitions of the argument are kept; and exactly when the argument lacks
\* a transition one state is added, named unlike every state of the
\* argument, not accepting, with a self-loop on every symbol.
C29_CompleteIsTotal ==
  pc \in {"cdfa", "mdfa", "mdfa2"} =>
    /\ \A st \in Range(cdfa.states) : \A a \in Range(cdfa.alphabet) :
         /\ st \in DOMAIN cdfa.transitions /\ a \in DOMAIN cdfa.transitions[st]
         /\ cdfa.transitions[st][a] \in Range(cdfa.states)
    /\ \A st \in Range(dfa.states) : \A a \in Range(dfa.alphabet) :
         (st \in DOMAIN dfa.transitions /\ a \in DOMAIN dfa.transitions[st]) =>
            cdfa.transitions[st][a] = dfa.transitions[st][a]
    /\ cdfa.alphabet = dfa.alphabet /\ cdfa.start = dfa.start
    /\ Range(cdfa.accepts) = Range(dfa.accepts)
    /\ IF LacksTransition(dfa)
       THEN /\ Len(cdfa.states) = Len(dfa.states) + 1
            /\ SubSeq(cdfa.states, 1, Len(dfa.states)) = dfa.states
            /\ LET dead == cdfa.states[Len(cdfa.states)]
               IN /\ dead \notin Range(dfa.states)
                  /\ dead \notin Range(cdfa.accepts)
                  /\ \A a \in Range(cdfa.alphabet) : cdfa.transitions[dead][a] = dead
       ELSE cdfa.states = dfa.states

\* the DFA has a state named '⊥' and lacks a transition: the added state is
\* named '⊥'' and a missing transition leads to it
C29_Witness ==
  /\ pc = "cdfa"
  /\ <<DeadCode>> \in Range(dfa.states)
  /\ LacksTransition(dfa)
  /\ cdfa.states[Len(cdfa.states)] = <<DeadCode + 1>>
  /\ \E st \in Range(dfa.states) : \E a \in Range(dfa.alphabet) :
        cdfa.transitions[st][a] = <<DeadCode + 1>>
  /\ \E st \in Range(dfa.states) : \E a \in Range(dfa.alphabet) :
        cdfa.transitions[st][a] \in Range(dfa.states)

(***************************************************************************)
(* Claims about what leftFactor does to the alternatives                   *)
(***************************************************************************)
\* the multiset of the elements of a sequence
BagOf(seq) == [x \in Range(seq) |-> Cardinality({i \in 1..Len(seq) : seq[i] = x})]

RECURSIVE ExpandAlt(_, _, _), ExpandAll(_, _, _)
\* the alternatives obtained from alt by replacing its first symbol that is
\* in fresh by each alternative of that symbol (an ε alternative by
\* nothing), until no symbol of fresh is left
ExpandAlt(prods, fresh, alt) ==
  IF Range(alt) \cap fresh = {} THEN <<alt>>
  ELSE LET k == CHOOSE i \in 1..Len(alt) :
                   alt[i] \in fresh /\ \A j \in 1..(i - 1) : alt[j] \notin fresh
           subs == prods.val[alt[k]]
           one(d) == SubSeq(alt, 1, k - 1) \o (IF d = <<EPS>> THEN <<>> ELSE d)
                       \o SubSeq(alt, k + 1, Len(alt))
       IN ExpandAll(prods, fresh, [r \in 1..Len(subs) |-> one(subs[r])])

\* the expansions of all the alternatives of a list, in order
ExpandAll(prods, fresh, alts) ==
  IF alts = <<>> THEN <<>>
  ELSE ExpandAlt(prods, fresh, Head(alts)) \o ExpandAll(prods, fresh, Tail(alts))

\* C26: leftFactor only re-brackets: for every nonterminal A of the input,
\* A's alternatives in the output, with every introduced _fact nonterminal
\* replaced by each of its alternatives, are the multiset of A's original
\* alternatives; and the alternatives of A that begin like no other
\* alternative of A are kept as they are.
C26_OnlyRebrackets ==
  pc = "lfDone" =>
    LET fresh == NontermSet(lf) \ NontermSet(g)
    IN \A A \in NontermSet(g) :
         /\ BagOf(ExpandAll(lf, fresh, lf.val[A])) = BagOf(g.val[A])
         /\ \A r \in 1..Len(g.val[A]) :
              (\A q \in 1..Len(g.val[A]) : q # r => g.val[A][q][1] # g.val[A][r][1])
                 => g.val[A][r] \in Range(lf.val[A])

\* the same statement for the arguments in which no introduced name occurs
\* already as a symbol: the only failures of C26 are captures of such a
\* symbol by the new nonterminal (C24)
C26_OnlyRebracketsUnusedNames ==
  (pc = "lfDone" /\ (NontermSet(lf) \ NontermSet(g)) \cap SymbolsOf(g) = {}) =>
    LET fresh == NontermSet(lf) \ NontermSet(g)
    IN \A A \in NontermSet(g) :
         BagOf(ExpandAll(lf, fresh, lf.val[A])) = BagOf(g.val[A])
====
